---- MODULE Spec2Model ----
(***************************************************************************)
(* A model of the validation-and-calculation layer of the structural      *)
(* dashboard (app/validators.py, app/calculations.py, app/config.py).     *)
(*                                                                         *)
(* The layer is a set of functions without state of their own.  The model *)
(* is a caller that, when idle, invokes one function on arguments drawn   *)
(* from small sets and records the call and its outcome; the caller then  *)
(* reads the outcome back and becomes idle again.                         *)
(*                                                                         *)
(* Numbers.  A Python float is modelled as an extended rational: a        *)
(* reduced fraction n/d, or one of the IEEE specials inf, -inf, nan.      *)
(* Binary representation error of finite floats is not modelled: finite   *)
(* arithmetic is exact, round() rounds the exact value half-to-even.      *)
(***************************************************************************)
EXTENDS Integers, Sequences, FiniteSets, TLC

VARIABLES pc, op, args, outcome

\* the lookup tables of config.py, module globals that any code may reach
VARIABLES STEEL_GRADES, LOAD_COMBINATIONS, DEFLECTION_LIMITS

\* held: the key of the STEEL_GRADES entry that the dict in the caller's
\* hands is (the same object), <<>> if that dict is an object of its own.
\* earlier: a call the caller made before, with its outcome.
VARIABLES held, earlier

tables == <<STEEL_GRADES, LOAD_COMBINATIONS, DEFLECTION_LIMITS>>

vars == <<pc, op, args, outcome, STEEL_GRADES, LOAD_COMBINATIONS, DEFLECTION_LIMITS, held, earlier>>

(***************************************************************************)
(* Bounds of the model.                                                    *)
(***************************************************************************)
\* longest string handed to a numeric validator
MaxStrLen == 3
\* largest integer magnitude handed to a validator or calculator
MaxInt == 2
\* the most blanks put before or after a name
MaxPad == 1

(***************************************************************************)
(* Extended rationals: the values of Python floats.                        *)
(***************************************************************************)
Abs(i) == IF i < 0 THEN -i ELSE i

RECURSIVE GCD(_, _)
GCD(a, b) == IF b = 0 THEN a ELSE GCD(b, a % b)

\* the fraction n/d (d # 0) in lowest terms with a positive denominator
Fin(n, d) ==
    LET g == GCD(Abs(n), Abs(d))
        s == IF d < 0 THEN -1 ELSE 1
    IN  [k |-> "fin", n |-> (s * n) \div g, d |-> (s * d) \div g]

PosInf == [k |-> "inf"]
NegInf == [k |-> "ninf"]
NaN == [k |-> "nan"]

IsFin(x) == x.k = "fin"
Zero == Fin(0, 1)

\* sign of an extended rational: -1, 0, 1; nan has none (0 by convention,
\* every user tests for nan first)
Sign(x) ==
    CASE x.k = "fin" -> (IF x.n < 0 THEN -1 ELSE IF x.n = 0 THEN 0 ELSE 1)
      [] x.k = "inf" -> 1
      [] x.k = "ninf" -> -1
      [] OTHER -> 0

\* Python's float comparisons: every comparison with nan is False
XLt(a, b) ==
    CASE a.k = "nan" \/ b.k = "nan" -> FALSE
      [] a.k = "fin" /\ b.k = "fin" -> a.n * b.d < b.n * a.d
      [] a.k = "ninf" -> b.k # "ninf"
      [] b.k = "inf" -> a.k # "inf"
      [] OTHER -> FALSE

XEq(a, b) ==
    CASE a.k = "nan" \/ b.k = "nan" -> FALSE
      [] a.k = "fin" /\ b.k = "fin" -> a.n * b.d = b.n * a.d
      [] OTHER -> a.k = b.k

XLe(a, b) == XLt(a, b) \/ XEq(a, b)

XNeg(a) ==
    CASE a.k = "fin" -> Fin(-a.n, a.d)
      [] a.k = "inf" -> NegInf
      [] a.k = "ninf" -> PosInf
      [] OTHER -> NaN

XAdd(a, b) ==
    CASE a.k = "nan" \/ b.k = "nan" -> NaN
      [] a.k = "fin" /\ b.k = "fin" ->
           LET g == GCD(a.d, b.d)
           IN  Fin(a.n * (b.d \div g) + b.n * (a.d \div g), (a.d \div g) * b.d)
      [] a.k = "fin" -> b
      [] b.k = "fin" -> a
      [] a.k = b.k -> a
      [] OTHER -> NaN

XSub(a, b) == XAdd(a, XNeg(b))

XMul(a, b) ==
    CASE a.k = "nan" \/ b.k = "nan" -> NaN
      [] a.k = "fin" /\ b.k = "fin" ->
           LET g1 == GCD(Abs(a.n), b.d)
               g2 == GCD(Abs(b.n), a.d)
           IN  Fin((a.n \div g1) * (b.n \div g2), (a.d \div g2) * (b.d \div g1))
      [] Sign(a) * Sign(b) = 0 -> NaN
      [] Sign(a) * Sign(b) > 0 -> PosInf
      [] OTHER -> NegInf

\* a / b for a divisor that is not zero (Python raises ZeroDivisionError on a
\* zero divisor; the callers test for it before dividing)
XDiv(a, b) ==
    CASE a.k = "nan" \/ b.k = "nan" -> NaN
      [] a.k = "fin" /\ b.k = "fin" -> XMul(a, Fin(b.d, b.n))
      [] a.k = "fin" -> Zero
      [] b.k = "fin" -> (IF Sign(a) * Sign(b) > 0 THEN PosInf ELSE NegInf)
      [] OTHER -> NaN

RECURSIVE Pow10(_)
Pow10(e) == IF e = 0 THEN 1 ELSE 10 * Pow10(e - 1)

\* the integer nearest to n/d (d > 0), ties to the even one
RoundHalfEven(n, d) ==
    LET q == n \div d
        r == n % d
    IN  IF 2 * r < d THEN q
        ELSE IF 2 * r > d THEN q + 1
        ELSE IF q % 2 = 0 THEN q ELSE q + 1

\* round(x, ndigits) on a float: inf and nan are returned unchanged
XRound(x, ndigits) ==
    IF IsFin(x)
    THEN LET g == GCD(Pow10(ndigits), x.d)
         IN  Fin(RoundHalfEven(x.n * (Pow10(ndigits) \div g), x.d \div g), Pow10(ndigits))
    ELSE x

(***************************************************************************)
(* Python values handed to the functions.                                  *)
(*   [t |-> "int",   v |-> i]     an int                                   *)
(*   [t |-> "float", x |-> f]     a float, f an extended rational          *)
(*   [t |-> "str",   s |-> cs]    a string, cs its sequence of characters  *)
(*   [t |-> "None"]               None                                     *)
(*   [t |-> "tuple", items |-> s] a tuple                                  *)
(* A float inside a tuple or a result record is written as its extended   *)
(* rational alone.                                                         *)
(***************************************************************************)
PyInt(i) == [t |-> "int", v |-> i]
PyFloat(f) == [t |-> "float", x |-> f]
PyStr(cs) == [t |-> "str", s |-> cs]
PyNone == [t |-> "None"]
PyTuple(items) == [t |-> "tuple", items |-> items]

\* the float a Python number stands for in arithmetic and comparisons
NumValue(value) == IF value.t = "int" THEN Fin(value.v, 1) ELSE value.x

(***************************************************************************)
(* float(str): surrounding whitespace is stripped; an optional sign; then  *)
(* "inf", "infinity" or "nan", or a decimal numeral with at least one      *)
(* digit and at most one point.  Exponents, underscores and upper-case     *)
(* letters are outside the alphabet the model draws strings from.          *)
(***************************************************************************)
Digits == {"0", "1", "5"}
DigitValue(c) == CASE c = "0" -> 0 [] c = "1" -> 1 [] c = "5" -> 5

RECURSIVE LStrip(_)
LStrip(cs) == IF cs # <<>> /\ Head(cs) = " " THEN LStrip(Tail(cs)) ELSE cs

RECURSIVE RStrip(_)
RStrip(cs) ==
    IF cs # <<>> /\ cs[Len(cs)] = " " THEN RStrip(SubSeq(cs, 1, Len(cs) - 1)) ELSE cs

Strip(cs) == RStrip(LStrip(cs))

\* the integer a sequence of digits denotes
RECURSIVE DigitsValue(_)
DigitsValue(cs) ==
    IF cs = <<>> THEN 0
    ELSE 10 * DigitsValue(SubSeq(cs, 1, Len(cs) - 1)) + DigitValue(cs[Len(cs)])

AllDigits(cs) == \A i \in 1..Len(cs) : cs[i] \in Digits

\* an unsigned decimal numeral: digits, at most one point, at least one digit
IsDecimal(cs) ==
    LET points == {i \in 1..Len(cs) : cs[i] = "."}
    IN  /\ Cardinality(points) <= 1
        /\ \A i \in 1..Len(cs) : cs[i] \in Digits \cup {"."}
        /\ \E i \in 1..Len(cs) : cs[i] \in Digits

DecimalValue(cs) ==
    LET points == {i \in 1..Len(cs) : cs[i] = "."}
        p == IF points = {} THEN Len(cs) + 1 ELSE CHOOSE i \in points : TRUE
        whole == SubSeq(cs, 1, p - 1)
        frac == SubSeq(cs, p + 1, Len(cs))
    IN  Fin(DigitsValue(whole) * Pow10(Len(frac)) + DigitsValue(frac), Pow10(Len(frac)))

\* a decimal numeral with its sign applied
SignedDecimal(neg, rest) == IF neg THEN XNeg(DecimalValue(rest)) ELSE DecimalValue(rest)

\* the numeral after the sign
ParseUnsigned(neg, rest) ==
    IF rest \in {<<"i", "n", "f">>, <<"i", "n", "f", "i", "n", "i", "t", "y">>}
    THEN [ok |-> TRUE, x |-> IF neg THEN NegInf ELSE PosInf]
    ELSE IF rest = <<"n", "a", "n">>
    THEN [ok |-> TRUE, x |-> NaN]
    ELSE IF IsDecimal(rest)
    THEN [ok |-> TRUE, x |-> SignedDecimal(neg, rest)]
    ELSE [ok |-> FALSE]

ParseStripped(body) ==
    IF body # <<>> /\ Head(body) \in {"+", "-"}
    THEN ParseUnsigned(Head(body) = "-", Tail(body))
    ELSE ParseUnsigned(FALSE, body)

\* float(cs): [ok |-> TRUE, x |-> the float] or [ok |-> FALSE] (ValueError)
ParseFloat(cs) == ParseStripped(Strip(cs))

(***************************************************************************)
(* Outcomes.  A function returns a value or raises; an error message is    *)
(* the sequence of its words, so that "contains" is a test on the text.    *)
(***************************************************************************)
Return(v) == [kind |-> "return", value |-> v]
Raise(exception, message) == [kind |-> exception, message |-> message]
Raised(o) == o.kind # "return"

\* needle occurs in hay as a contiguous run of words
Contains(hay, needle) ==
    \E i \in 0..(Len(hay) - Len(needle)) :
        \A j \in 1..Len(needle) : hay[i + j] = needle[j]

(***************************************************************************)
(* validators.py                                                           *)
(***************************************************************************)
\* lines 11-17: an int or a float is taken as it is, anything else goes
\* through float(), whose ValueError or TypeError means "not numeric"
AsNumber(value) ==
    IF value.t \in {"int", "float"} THEN [ok |-> TRUE, x |-> NumValue(value)]
    ELSE IF value.t = "str" THEN ParseFloat(value.s)
    ELSE [ok |-> FALSE]

\* lines 15-31, on the outcome of the conversion
CheckNumber(number, value, parameter_name, allow_zero, allow_negative) ==
    IF ~number.ok
    THEN Raise("ValidationError",
               parameter_name \o <<"must", "be", "a", "numeric", "value,", "got", ToString(value)>>)
    ELSE IF ~allow_negative /\ XLt(number.x, Zero)
    THEN Raise("ValidationError",
               parameter_name \o <<"cannot", "be", "negative,", "got", ToString(number.x)>>)
    ELSE IF ~allow_zero /\ XEq(number.x, Zero)
    THEN Raise("ValidationError", parameter_name \o <<"cannot", "be", "zero">>)
    ELSE Return(number.x)

validate_numeric(value, parameter_name, allow_zero, allow_negative) ==
    CheckNumber(AsNumber(value), value, parameter_name, allow_zero, allow_negative)

validate_positive(value, parameter_name) ==
    validate_numeric(value, parameter_name, FALSE, FALSE)

validate_non_negative(value, parameter_name) ==
    validate_numeric(value, parameter_name, TRUE, FALSE)

\* str.lower() and str.upper(), character by character
UpperLetters ==
    <<"A", "B", "C", "D", "E", "F", "G", "H", "I", "J", "K", "L", "M",
      "N", "O", "P", "Q", "R", "S", "T", "U", "V", "W", "X", "Y", "Z">>
LowerLetters ==
    <<"a", "b", "c", "d", "e", "f", "g", "h", "i", "j", "k", "l", "m",
      "n", "o", "p", "q", "r", "s", "t", "u", "v", "w", "x", "y", "z">>

LowerChar(c) ==
    IF \E i \in 1..26 : UpperLetters[i] = c
    THEN LowerLetters[CHOOSE i \in 1..26 : UpperLetters[i] = c]
    ELSE c

UpperChar(c) ==
    IF \E i \in 1..26 : LowerLetters[i] = c
    THEN UpperLetters[CHOOSE i \in 1..26 : LowerLetters[i] = c]
    ELSE c

Lower(cs) == [i \in 1..Len(cs) |-> LowerChar(cs[i])]
Upper(cs) == [i \in 1..Len(cs) |-> UpperChar(cs[i])]

(***************************************************************************)
(* config.py                                                               *)
(***************************************************************************)
GAMMA_DL == Fin(15, 10)
GAMMA_LL == Fin(15, 10)
GAMMA_M0 == Fin(110, 100)
ELASTIC_MODULUS == 200000

\* the factor 1.2 written out in the wind and seismic branches
CombinedFactor == Fin(12, 10)

Normal == <<"n", "o", "r", "m", "a", "l">>
Wind == <<"w", "i", "n", "d">>
Seismic == <<"s", "e", "i", "s", "m", "i", "c">>

\* LOAD_COMBINATIONS as config.py builds it
LOAD_COMBINATIONS_0 ==
    (Normal :> [description |-> "Dead Load + Live Load",
                dl_factor |-> GAMMA_DL, ll_factor |-> GAMMA_LL])
    @@ (Wind :> [description |-> "Dead Load + Live Load + Wind Load",
                 combined_factor |-> CombinedFactor])
    @@ (Seismic :> [description |-> "Dead Load + Live Load + Earthquake Load",
                    combined_factor |-> CombinedFactor])

E250 == <<"E", "2", "5", "0">>
E275 == <<"E", "2", "7", "5">>
E300 == <<"E", "3", "0", "0">>
E350 == <<"E", "3", "5", "0">>
E410 == <<"E", "4", "1", "0">>
E450 == <<"E", "4", "5", "0">>
FE410 == <<"F", "E", "4", "1", "0">>
FE490 == <<"F", "E", "4", "9", "0">>

\* an entry of the table; its integers are written as the numbers they are
GradeRecord(fy, fu, el, text) ==
    [yield_strength |-> Fin(fy, 1), ultimate_strength |-> Fin(fu, 1), elongation |-> Fin(el, 1),
     description |-> text]

\* STEEL_GRADES as config.py builds it
STEEL_GRADES_0 ==
    (E250 :> GradeRecord(250, 410, 23, "Mild Steel (Standard)"))
    @@ (E275 :> GradeRecord(275, 430, 22, "Medium Carbon Steel"))
    @@ (E300 :> GradeRecord(300, 440, 22, "Medium Strength Steel"))
    @@ (E350 :> GradeRecord(350, 490, 22, "High Strength Steel"))
    @@ (E410 :> GradeRecord(410, 540, 20, "High Strength Low Alloy"))
    @@ (E450 :> GradeRecord(450, 570, 20, "Extra High Strength"))
    @@ (FE410 :> GradeRecord(250, 410, 23, "Fe410 Grade (Legacy)"))
    @@ (FE490 :> GradeRecord(350, 490, 22, "Fe490 Grade (Legacy)"))

Industrial == <<"i", "n", "d", "u", "s", "t", "r", "i", "a", "l">>
Sensitive == <<"s", "e", "n", "s", "i", "t", "i", "v", "e">>
Cantilever == <<"c", "a", "n", "t", "i", "l", "e", "v", "e", "r">>

\* DEFLECTION_LIMITS as config.py builds it
DEFLECTION_LIMITS_0 ==
    (Industrial :> Fin(240, 1)) @@ (Normal :> Fin(300, 1))
    @@ (Sensitive :> Fin(360, 1)) @@ (Cantilever :> Fin(150, 1))

(***************************************************************************)
(* validators.py, the validators of each calculation                       *)
(***************************************************************************)
DeadLoadLabel == <<"Dead", "Load">>
LiveLoadLabel == <<"Live", "Load">>
WindLoadLabel == <<"Wind", "Load">>
EarthquakeLoadLabel == <<"Earthquake", "Load">>
AppliedStressLabel == <<"Applied", "Stress">>
AllowableStressLabel == <<"Allowable", "Stress">>
MinSafetyFactorLabel == <<"Minimum", "Safety", "Factor">>
AppliedLoadLabel == <<"Applied", "Load">>
SectionCapacityLabel == <<"Section", "Capacity">>
YieldStrengthLabel == <<"Yield", "Strength">>
PlasticModulusLabel == <<"Plastic", "Modulus">>
ActualDeflectionLabel == <<"Actual", "Deflection">>
SpanLengthLabel == <<"Span", "Length">>
DeflectionLimitLabel == <<"Deflection", "Limit", "Ratio">>
ShearAreaLabel == <<"Shear", "Area">>

\* the first of the outcomes that raised, else the tuple of the values
FirstRaised2(a, b) ==
    IF Raised(a) THEN a
    ELSE IF Raised(b) THEN b
    ELSE Return(PyTuple(<<a.value, b.value>>))

FirstRaised3(a, b, c) ==
    IF Raised(a) THEN a
    ELSE IF Raised(b) THEN b
    ELSE IF Raised(c) THEN c
    ELSE Return(PyTuple(<<a.value, b.value, c.value>>))

FirstRaised4(a, b, c, d) ==
    IF Raised(a) THEN a
    ELSE IF Raised(b) THEN b
    ELSE IF Raised(c) THEN c
    ELSE IF Raised(d) THEN d
    ELSE Return(PyTuple(<<a.value, b.value, c.value, d.value>>))

\* validate_load_inputs with the wind and earthquake loads taken as they come
validate_load_inputs_UsedOnly(dead_load, live_load, wind_load, earthquake_load) ==
    FirstRaised4(validate_non_negative(dead_load, DeadLoadLabel),
                 validate_non_negative(live_load, LiveLoadLabel),
                 Return(IF AsNumber(wind_load).ok THEN AsNumber(wind_load).x ELSE Zero),
                 Return(IF AsNumber(earthquake_load).ok THEN AsNumber(earthquake_load).x
                        ELSE Zero))

validate_load_inputs(dead_load, live_load, wind_load, earthquake_load) ==
    FirstRaised4(validate_non_negative(dead_load, DeadLoadLabel),
                 validate_non_negative(live_load, LiveLoadLabel),
                 validate_non_negative(wind_load, WindLoadLabel),
                 validate_non_negative(earthquake_load, EarthquakeLoadLabel))

\* lines 59-68, on the stripped and lower-cased name
CheckCombination(combo_type, combination_type) ==
    IF combo_type \notin DOMAIN LOAD_COMBINATIONS
    THEN Raise("ValidationError",
               <<"Invalid", "combination", "type:", ToString(combination_type.s),
                 "Must", "be", "one", "of:", "normal,", "wind,", "seismic">>)
    ELSE Return(PyStr(combo_type))

\* validate_combination_type without the strip() of line 59
validate_combination_type_Unstripped(combination_type) ==
    IF combination_type.t # "str"
    THEN Raise("ValidationError",
               <<"Combination", "type", "must", "be", "a", "string,", "got", combination_type.t>>)
    ELSE CheckCombination(Lower(combination_type.s), combination_type)

validate_combination_type(combination_type) ==
    IF combination_type.t # "str"
    THEN Raise("ValidationError",
               <<"Combination", "type", "must", "be", "a", "string,", "got", combination_type.t>>)
    ELSE CheckCombination(Lower(Strip(combination_type.s)), combination_type)

\* lines 77-86, on the stripped and upper-cased name
CheckGrade(grade, steel_grade) ==
    IF grade \notin DOMAIN STEEL_GRADES
    THEN Raise("ValidationError",
               <<"Unknown", "steel", "grade:", ToString(steel_grade.s),
                 "Available", "grades:", "E250,", "E275,", "E300,", "E350,",
                 "E410,", "E450,", "FE410,", "FE490">>)
    ELSE Return(PyStr(grade))

\* validate_steel_grade without the upper() of line 77
validate_steel_grade_CaseSensitive(steel_grade) ==
    IF steel_grade.t # "str"
    THEN Raise("ValidationError",
               <<"Steel", "grade", "must", "be", "a", "string,", "got", steel_grade.t>>)
    ELSE CheckGrade(Strip(steel_grade.s), steel_grade)

validate_steel_grade(steel_grade) ==
    IF steel_grade.t # "str"
    THEN Raise("ValidationError",
               <<"Steel", "grade", "must", "be", "a", "string,", "got", steel_grade.t>>)
    ELSE CheckGrade(Upper(Strip(steel_grade.s)), steel_grade)

\* lines 95-104, on the stripped and lower-cased name
CheckCategory(cat, category) ==
    IF cat \notin DOMAIN DEFLECTION_LIMITS
    THEN Raise("ValidationError",
               <<"Invalid", "deflection", "category:", ToString(category.s),
                 "Must", "be", "one", "of:", "industrial,", "normal,", "sensitive,", "cantilever">>)
    ELSE Return(PyStr(cat))

validate_deflection_category(category) ==
    IF category.t # "str"
    THEN Raise("ValidationError",
               <<"Deflection", "category", "must", "be", "a", "string,", "got", category.t>>)
    ELSE CheckCategory(Lower(Strip(category.s)), category)

\* value == 0 on a raw Python value: a string or None never equals 0
EqualsZero(value) == value.t \in {"int", "float"} /\ XEq(NumValue(value), Zero)

validate_safety_factor_inputs(applied_stress, allowable_stress, min_safety_factor) ==
    IF EqualsZero(applied_stress)
    THEN Raise("ValidationError",
               <<"Applied", "stress", "cannot", "be", "zero", "(division", "by", "zero)">>)
    ELSE FirstRaised3(validate_positive(applied_stress, AppliedStressLabel),
                      validate_positive(allowable_stress, AllowableStressLabel),
                      validate_positive(min_safety_factor, MinSafetyFactorLabel))

validate_utilization_inputs(applied_load, section_capacity) ==
    FirstRaised2(validate_non_negative(applied_load, AppliedLoadLabel),
                 validate_positive(section_capacity, SectionCapacityLabel))

validate_moment_inputs(yield_strength, plastic_modulus) ==
    FirstRaised2(validate_positive(yield_strength, YieldStrengthLabel),
                 validate_positive(plastic_modulus, PlasticModulusLabel))

\* int(x) on a float: truncation toward zero; OverflowError on an infinity,
\* ValueError on nan
\* IntOfFloat rounding a fraction up
IntOfFloat_Ceiling(x) ==
    CASE x.k = "fin" -> Return(PyInt(-((-x.n) \div x.d)))
      [] x.k = "nan" -> Raise("ValueError", <<"cannot", "convert", "float", "NaN", "to", "integer">>)
      [] OTHER -> Raise("OverflowError", <<"cannot", "convert", "float", "infinity", "to", "integer">>)

IntOfFloat(x) ==
    CASE x.k = "fin" -> Return(PyInt(IF x.n < 0 THEN -((-x.n) \div x.d) ELSE x.n \div x.d))
      [] x.k = "nan" -> Raise("ValueError", <<"cannot", "convert", "float", "NaN", "to", "integer">>)
      [] OTHER -> Raise("OverflowError", <<"cannot", "convert", "float", "infinity", "to", "integer">>)

\* line 137: the three validated values, the ratio through int()
DeflectionTuple(validated) ==
    IF Raised(validated) THEN validated
    ELSE FirstRaised3(Return(validated.value.items[1]), Return(validated.value.items[2]),
                      IntOfFloat(validated.value.items[3]))

validate_deflection_inputs(actual_deflection, span_length, limit_ratio) ==
    DeflectionTuple(FirstRaised3(validate_non_negative(actual_deflection, ActualDeflectionLabel),
                                 validate_positive(span_length, SpanLengthLabel),
                                 validate_positive(limit_ratio, DeflectionLimitLabel)))

validate_shear_inputs(yield_strength, shear_area) ==
    FirstRaised2(validate_positive(yield_strength, YieldStrengthLabel),
                 validate_positive(shear_area, ShearAreaLabel))

\* a / b on floats: ZeroDivisionError on a zero divisor
Divide(a, b) ==
    IF XEq(b, Zero)
    THEN Raise("ZeroDivisionError", <<"float", "division", "by", "zero">>)
    ELSE Return(XDiv(a, b))

(***************************************************************************)
(* calculations.py                                                         *)
(***************************************************************************)
\* FactoredLoadRecord with the wind load counted in the normal combination
FactoredLoadRecord_WindInNormal(dl, ll, wl, eq, combo) ==
    CASE combo = Normal ->
           Return([factored_load |->
                       XRound(XAdd(XAdd(XMul(GAMMA_DL, dl), XMul(GAMMA_LL, ll)), XMul(GAMMA_DL, wl)), 2),
                   combination_type |-> combo,
                   components |-> [factored_dead_load |-> XRound(XMul(GAMMA_DL, dl), 2),
                                   factored_live_load |-> XRound(XMul(GAMMA_LL, ll), 2)],
                   unit |-> "kN"])
      [] combo = Wind ->
           Return([factored_load |-> XRound(XMul(CombinedFactor, XAdd(XAdd(dl, ll), wl)), 2),
                   combination_type |-> combo,
                   components |-> [combined_load |-> XRound(XAdd(XAdd(dl, ll), wl), 2),
                                   factor_applied |-> CombinedFactor],
                   unit |-> "kN"])
      [] combo = Seismic ->
           Return([factored_load |-> XRound(XMul(CombinedFactor, XAdd(XAdd(dl, ll), eq)), 2),
                   combination_type |-> combo,
                   components |-> [combined_load |-> XRound(XAdd(XAdd(dl, ll), eq), 2),
                                   factor_applied |-> CombinedFactor],
                   unit |-> "kN"])

\* FactoredLoadRecord with the wind and the earthquake load taken for each other
FactoredLoadRecord_SideLoadsSwapped(dl, ll, wl, eq, combo) ==
    CASE combo = Normal ->
           Return([factored_load |-> XRound(XAdd(XMul(GAMMA_DL, dl), XMul(GAMMA_LL, ll)), 2),
                   combination_type |-> combo,
                   components |-> [factored_dead_load |-> XRound(XMul(GAMMA_DL, dl), 2),
                                   factored_live_load |-> XRound(XMul(GAMMA_LL, ll), 2)],
                   unit |-> "kN"])
      [] combo = Wind ->
           Return([factored_load |-> XRound(XMul(CombinedFactor, XAdd(XAdd(dl, ll), eq)), 2),
                   combination_type |-> combo,
                   components |-> [combined_load |-> XRound(XAdd(XAdd(dl, ll), eq), 2),
                                   factor_applied |-> CombinedFactor],
                   unit |-> "kN"])
      [] combo = Seismic ->
           Return([factored_load |-> XRound(XMul(CombinedFactor, XAdd(XAdd(dl, ll), wl)), 2),
                   combination_type |-> combo,
                   components |-> [combined_load |-> XRound(XAdd(XAdd(dl, ll), wl), 2),
                                   factor_applied |-> CombinedFactor],
                   unit |-> "kN"])

\* lines 27-55, on the validated loads and combination
FactoredLoadRecord(dl, ll, wl, eq, combo) ==
    CASE combo = Normal ->
           Return([factored_load |-> XRound(XAdd(XMul(GAMMA_DL, dl), XMul(GAMMA_LL, ll)), 2),
                   combination_type |-> combo,
                   components |-> [factored_dead_load |-> XRound(XMul(GAMMA_DL, dl), 2),
                                   factored_live_load |-> XRound(XMul(GAMMA_LL, ll), 2)],
                   unit |-> "kN"])
      [] combo = Wind ->
           Return([factored_load |-> XRound(XMul(CombinedFactor, XAdd(XAdd(dl, ll), wl)), 2),
                   combination_type |-> combo,
                   components |-> [combined_load |-> XRound(XAdd(XAdd(dl, ll), wl), 2),
                                   factor_applied |-> CombinedFactor],
                   unit |-> "kN"])
      [] combo = Seismic ->
           Return([factored_load |-> XRound(XMul(CombinedFactor, XAdd(XAdd(dl, ll), eq)), 2),
                   combination_type |-> combo,
                   components |-> [combined_load |-> XRound(XAdd(XAdd(dl, ll), eq), 2),
                                   factor_applied |-> CombinedFactor],
                   unit |-> "kN"])

\* FactoredLoadOf with the combination type validated before the loads
FactoredLoadOf_CombinationFirst(loads, combo) ==
    IF Raised(combo) THEN combo
    ELSE IF Raised(loads) THEN loads
    ELSE FactoredLoadRecord(loads.value.items[1], loads.value.items[2], loads.value.items[3],
                            loads.value.items[4], combo.value.s)

\* lines 23-24: the loads are validated before the combination type
FactoredLoadOf(loads, combo) ==
    IF Raised(loads) THEN loads
    ELSE IF Raised(combo) THEN combo
    ELSE FactoredLoadRecord(loads.value.items[1], loads.value.items[2], loads.value.items[3],
                            loads.value.items[4], combo.value.s)

calculate_factored_load(dead_load, live_load, wind_load, earthquake_load, combination_type) ==
    FactoredLoadOf(validate_load_inputs(dead_load, live_load, wind_load, earthquake_load),
                   validate_combination_type(combination_type))

\* SafetyFactorRecord with a safety factor equal to the minimum counted unsafe
SafetyFactorRecord_Strict(safety_factor, margin_ratio, app_stress, allow_stress, min_sf) ==
    IF Raised(safety_factor) THEN safety_factor
    ELSE IF Raised(margin_ratio) THEN margin_ratio
    ELSE Return([safety_factor |-> XRound(safety_factor.value, 3),
                 is_safe |-> XLt(min_sf, safety_factor.value),
                 margin |-> XRound(XMul(margin_ratio.value, Fin(100, 1)), 2),
                 status |-> IF XLt(min_sf, safety_factor.value) THEN "SAFE" ELSE "UNSAFE",
                 applied_stress |-> app_stress,
                 allowable_stress |-> allow_stress,
                 minimum_required |-> min_sf])

\* lines 70-81, on the quotient of line 69 and the quotient of line 71
SafetyFactorRecord(safety_factor, margin_ratio, app_stress, allow_stress, min_sf) ==
    IF Raised(safety_factor) THEN safety_factor
    ELSE IF Raised(margin_ratio) THEN margin_ratio
    ELSE Return([safety_factor |-> XRound(safety_factor.value, 3),
                 is_safe |-> XLe(min_sf, safety_factor.value),
                 margin |-> XRound(XMul(margin_ratio.value, Fin(100, 1)), 2),
                 status |-> IF XLe(min_sf, safety_factor.value) THEN "SAFE" ELSE "UNSAFE",
                 applied_stress |-> app_stress,
                 allowable_stress |-> allow_stress,
                 minimum_required |-> min_sf])

\* MarginRatio with the excess taken relative to the safety factor
MarginRatio_OverFactor(safety_factor, min_sf) ==
    IF Raised(safety_factor) THEN safety_factor
    ELSE Divide(XSub(safety_factor.value, min_sf), safety_factor.value)

\* line 71: (safety_factor - min_sf) / min_sf
MarginRatio(safety_factor, min_sf) ==
    IF Raised(safety_factor) THEN safety_factor
    ELSE Divide(XSub(safety_factor.value, min_sf), min_sf)

SafetyFactorWith(safety_factor, app_stress, allow_stress, min_sf) ==
    SafetyFactorRecord(safety_factor, MarginRatio(safety_factor, min_sf),
                       app_stress, allow_stress, min_sf)

SafetyFactorOf(v) ==
    IF Raised(v) THEN v
    ELSE SafetyFactorWith(Divide(v.value.items[2], v.value.items[1]), v.value.items[1], v.value.items[2], v.value.items[3])

check_safety_factor(applied_stress, allowable_stress, min_safety_factor) ==
    SafetyFactorOf(validate_safety_factor_inputs(applied_stress, allowable_stress, min_safety_factor))

\* Max0 without the floor at zero
Max0_Identity(x) == x

\* max(0, x): x when x > 0, else the first argument
Max0(x) == IF XLt(Zero, x) THEN x ELSE Zero

\* UtilizationStatus with the bands open at their upper ends
UtilizationStatus_Open(utilization_ratio) ==
    IF XLt(utilization_ratio, Fin(7, 10)) THEN "UNDER-UTILIZED"
    ELSE IF XLt(utilization_ratio, Fin(1, 1)) THEN "ADEQUATE"
    ELSE IF XLt(utilization_ratio, Fin(11, 10)) THEN "MARGINALLY OVERSTRESSED"
    ELSE "OVERSTRESSED"

\* lines 98-105
UtilizationStatus(utilization_ratio) ==
    IF XLe(utilization_ratio, Fin(7, 10)) THEN "UNDER-UTILIZED"
    ELSE IF XLe(utilization_ratio, Fin(1, 1)) THEN "ADEQUATE"
    ELSE IF XLe(utilization_ratio, Fin(11, 10)) THEN "MARGINALLY OVERSTRESSED"
    ELSE "OVERSTRESSED"

\* lines 94-115, on the quotient of line 93
UtilizationRecord(utilization_ratio, load, capacity) ==
    IF Raised(utilization_ratio) THEN utilization_ratio
    ELSE Return([utilization_ratio |-> XRound(utilization_ratio.value, 4),
                 utilization_percent |-> XRound(XMul(utilization_ratio.value, Fin(100, 1)), 2),
                 is_adequate |-> XLe(utilization_ratio.value, Fin(1, 1)),
                 reserve_capacity |->
                     XRound(Max0(XMul(XSub(Fin(1, 1), utilization_ratio.value), Fin(100, 1))), 2),
                 status |-> UtilizationStatus(utilization_ratio.value),
                 applied_load |-> load,
                 section_capacity |-> capacity])

UtilizationOf(v) ==
    IF Raised(v) THEN v
    ELSE UtilizationRecord(Divide(v.value.items[1], v.value.items[2]), v.value.items[1], v.value.items[2])

calculate_section_utilization(applied_load, section_capacity) ==
    UtilizationOf(validate_utilization_inputs(applied_load, section_capacity))

\* MomentKnm with the moment divided by 1e3
MomentKnm_PerThousand(moment_nmm) == XRound(XDiv(moment_nmm, Fin(1000, 1)), 2)

\* lines 124 and 128: the moment in kN-m, as reported
MomentKnm(moment_nmm) == XRound(XDiv(moment_nmm, Fin(1000000, 1)), 2)

\* lines 126-133, on the moment of line 123
MomentRecord(moment_nmm, fy, zpz) ==
    Return([moment_capacity_nmm |-> XRound(moment_nmm, 2),
            moment_capacity_knm |-> MomentKnm(moment_nmm),
            yield_strength |-> fy,
            plastic_modulus |-> zpz,
            gamma_m0 |-> GAMMA_M0,
            unit |-> "kN-m"])

MomentOf(v) ==
    IF Raised(v) THEN v
    ELSE MomentRecord(XDiv(XMul(v.value.items[1], v.value.items[2]), GAMMA_M0), v.value.items[1], v.value.items[2])

calculate_moment_capacity(yield_strength, plastic_modulus) ==
    MomentOf(validate_moment_inputs(yield_strength, plastic_modulus))

\* lines 153-159
DeflectionStatus(is_serviceable, utilization) ==
    IF is_serviceable
    THEN (IF XLe(utilization, Fin(8, 10)) THEN "WELL WITHIN LIMITS" ELSE "WITHIN LIMITS")
    ELSE "EXCEEDS LIMITS"

\* lines 161-171
DeflectionRecord(utilization, allowable, deflection, span, limit_ratio) ==
    Return([allowable_deflection |-> XRound(allowable, 2),
            actual_deflection |-> deflection,
            is_serviceable |-> XLe(deflection, allowable),
            utilization |-> XRound(utilization, 4),
            utilization_percent |-> XRound(XMul(utilization, Fin(100, 1)), 2),
            status |-> DeflectionStatus(XLe(deflection, allowable), utilization),
            span_length |-> span,
            limit_ratio |-> <<"L/", limit_ratio>>,
            unit |-> "mm"])

\* lines 149-150, on the quotient of line 148
DeflectionWith(allowable, deflection, span, limit_ratio) ==
    IF Raised(allowable) THEN allowable
    ELSE DeflectionRecord(IF XLt(Zero, allowable.value)
                          THEN XDiv(deflection, allowable.value) ELSE Zero,
                          allowable.value, deflection, span, limit_ratio)

DeflectionOf(v) ==
    IF Raised(v) THEN v
    ELSE DeflectionWith(Divide(v.value.items[2], Fin(v.value.items[3].v, 1)),
                        v.value.items[1], v.value.items[2], v.value.items[3].v)

check_deflection_serviceability(actual_deflection, span_length, deflection_limit_ratio) ==
    DeflectionOf(validate_deflection_inputs(actual_deflection, span_length, deflection_limit_ratio))

\* math.sqrt(3), to the three decimals the model's integers leave room for
Sqrt3 == Fin(1732, 1000)

\* lines 186-193, on the shear of line 183
ShearRecord(shear_n, fy, av) ==
    Return([shear_capacity_n |-> XRound(shear_n, 2),
            shear_capacity_kn |-> XRound(XDiv(shear_n, Fin(1000, 1)), 2),
            yield_strength |-> fy,
            shear_area |-> av,
            gamma_m0 |-> GAMMA_M0,
            unit |-> "kN"])

ShearOf(v) ==
    IF Raised(v) THEN v
    ELSE ShearRecord(XDiv(XMul(v.value.items[1], v.value.items[2]), XMul(Sqrt3, GAMMA_M0)),
                     v.value.items[1], v.value.items[2])

calculate_shear_capacity(yield_strength, shear_area) ==
    ShearOf(validate_shear_inputs(yield_strength, shear_area))

\* MaterialOf with the yield strength reported as the ultimate strength too
MaterialOf_UltimateAsYield(grade) ==
    IF Raised(grade) THEN grade
    ELSE Return([yield_strength |-> STEEL_GRADES[grade.value.s].yield_strength,
                 ultimate_strength |-> STEEL_GRADES[grade.value.s].yield_strength,
                 elongation |-> STEEL_GRADES[grade.value.s].elongation,
                 description |-> STEEL_GRADES[grade.value.s].description,
                 grade |-> grade.value.s,
                 elastic_modulus |-> Fin(ELASTIC_MODULUS, 1)])

\* lines 205-209: a copy of the grade's entry with two fields added
MaterialOf(grade) ==
    IF Raised(grade) THEN grade
    ELSE Return([yield_strength |-> STEEL_GRADES[grade.value.s].yield_strength,
                 ultimate_strength |-> STEEL_GRADES[grade.value.s].ultimate_strength,
                 elongation |-> STEEL_GRADES[grade.value.s].elongation,
                 description |-> STEEL_GRADES[grade.value.s].description,
                 grade |-> grade.value.s,
                 elastic_modulus |-> Fin(ELASTIC_MODULUS, 1)])

get_material_properties(steel_grade) == MaterialOf(validate_steel_grade(steel_grade))

\* DictCopy handing back the table's entry itself
DictCopy_Alias(key) == key

\* line 205, dict.copy(): the dict it returns is an object of its own, not
\* the entry of the table it was copied from
DictCopy(key) == <<>>

\* the STEEL_GRADES entry that `properties` of lines 205-207 is, <<>> if none
MaterialObject(grade) == IF Raised(grade) THEN <<>> ELSE DictCopy(grade.value.s)

\* GradesAfter with the entry taken out of the table by the lookup
GradesAfter_Consumed(grade, object) ==
    IF Raised(grade) THEN STEEL_GRADES
    ELSE [k \in DOMAIN STEEL_GRADES \ {grade.value.s} |-> STEEL_GRADES[k]]

\* STEEL_GRADES after lines 206-207 have assigned two fields of `properties`
GradesAfter(grade, object) ==
    IF object = <<>> THEN STEEL_GRADES
    ELSE [STEEL_GRADES EXCEPT ![object] = MaterialOf(grade).value]

\* DefaultLoad with a wind and an earthquake load of 1 passed on
DefaultLoad_Unit == PyFloat(Fin(1, 1))

\* the defaults of the parameters the composite analysis leaves out
DefaultLoad == PyFloat(Zero)
DefaultMinSafetyFactor == PyFloat(Fin(1, 1))

\* AnalysisRecord with one passing check enough for acceptance
AnalysisRecord_EitherPasses(factored, safety, utilization) ==
    IF Raised(utilization) THEN utilization
    ELSE Return([factored_load_analysis |-> factored.value,
                 safety_factor_analysis |-> safety.value,
                 utilization_analysis |-> utilization.value,
                 overall_status |->
                     IF safety.value.is_safe \/ utilization.value.is_adequate
                     THEN "ACCEPTABLE" ELSE "REVIEW REQUIRED",
                 is_acceptable |-> safety.value.is_safe \/ utilization.value.is_adequate])

\* lines 232-240
AnalysisRecord(factored, safety, utilization) ==
    IF Raised(utilization) THEN utilization
    ELSE Return([factored_load_analysis |-> factored.value,
                 safety_factor_analysis |-> safety.value,
                 utilization_analysis |-> utilization.value,
                 overall_status |->
                     IF safety.value.is_safe /\ utilization.value.is_adequate
                     THEN "ACCEPTABLE" ELSE "REVIEW REQUIRED",
                 is_acceptable |-> safety.value.is_safe /\ utilization.value.is_adequate])

\* lines 224-229: the safety check runs before the utilization of the
\* reported factored load
AnalysisOf(factored, safety, section_capacity) ==
    IF Raised(factored) THEN factored
    ELSE IF Raised(safety) THEN safety
    ELSE AnalysisRecord(factored, safety,
                        calculate_section_utilization(PyFloat(factored.value.factored_load),
                                                      section_capacity))

perform_complete_analysis(dead_load, live_load, applied_stress, allowable_stress, section_capacity, combination_type) ==
    AnalysisOf(calculate_factored_load(dead_load, live_load, DefaultLoad, DefaultLoad,
                                       combination_type),
               check_safety_factor(applied_stress, allowable_stress, DefaultMinSafetyFactor),
               section_capacity)

(***************************************************************************)
(* validators.py, validate_form_data.  A form is a function from the       *)
(* names of its fields to strings; a field the form lacks is outside its   *)
(* domain.  A calculation type is a string, "" when none was sent.         *)
(***************************************************************************)
\* dict.get(key, default)
Get(form_data, key, default) == IF key \in DOMAIN form_data THEN form_data[key] ELSE default

\* lines 150-165: the four loads, then the combination type
FactoredLoadForm(loads, combo) ==
    IF Raised(loads) THEN loads
    ELSE IF Raised(combo) THEN combo
    ELSE Return([dead_load |-> PyFloat(loads.value.items[1]),
                 live_load |-> PyFloat(loads.value.items[2]),
                 wind_load |-> PyFloat(loads.value.items[3]),
                 earthquake_load |-> PyFloat(loads.value.items[4]),
                 combination_type |-> combo.value])

\* lines 167-177
SafetyFactorForm(v) ==
    IF Raised(v) THEN v
    ELSE Return([applied_stress |-> PyFloat(v.value.items[1]),
                 allowable_stress |-> PyFloat(v.value.items[2]),
                 min_safety_factor |-> PyFloat(v.value.items[3])])

\* lines 179-185
UtilizationForm(v) ==
    IF Raised(v) THEN v
    ELSE Return([applied_load |-> PyFloat(v.value.items[1]),
                 section_capacity |-> PyFloat(v.value.items[2])])

\* lines 187-193
MomentForm(v) ==
    IF Raised(v) THEN v
    ELSE Return([yield_strength |-> PyFloat(v.value.items[1]),
                 plastic_modulus |-> PyFloat(v.value.items[2])])

\* lines 195-204
DeflectionForm(v) ==
    IF Raised(v) THEN v
    ELSE Return([actual_deflection |-> PyFloat(v.value.items[1]),
                 span_length |-> PyFloat(v.value.items[2]),
                 deflection_limit |-> PyFloat(v.value.items[3])])

\* lines 206-212
ShearForm(v) ==
    IF Raised(v) THEN v
    ELSE Return([yield_strength |-> PyFloat(v.value.items[1]),
                 shear_area |-> PyFloat(v.value.items[2])])

\* lines 214-217
MaterialForm(v) == IF Raised(v) THEN v ELSE Return([steel_grade |-> v.value])

validate_form_data(form_data, calculation_type) ==
    CASE calculation_type = "factored_load" ->
             FactoredLoadForm(
                 FirstRaised4(validate_non_negative(Get(form_data, "dead_load", PyInt(0)), DeadLoadLabel),
                              validate_non_negative(Get(form_data, "live_load", PyInt(0)), LiveLoadLabel),
                              validate_non_negative(Get(form_data, "wind_load", PyInt(0)), WindLoadLabel),
                              validate_non_negative(Get(form_data, "earthquake_load", PyInt(0)),
                                                    EarthquakeLoadLabel)),
                 validate_combination_type(Get(form_data, "combination_type", PyStr(Normal))))
      [] calculation_type = "safety_factor" ->
             SafetyFactorForm(
                 FirstRaised3(validate_positive(Get(form_data, "applied_stress", PyInt(0)), AppliedStressLabel),
                              validate_positive(Get(form_data, "allowable_stress", PyInt(0)),
                                                AllowableStressLabel),
                              validate_positive(Get(form_data, "min_safety_factor", PyFloat(Fin(1, 1))),
                                                MinSafetyFactorLabel)))
      [] calculation_type = "utilization" ->
             UtilizationForm(
                 FirstRaised2(validate_non_negative(Get(form_data, "applied_load", PyInt(0)), AppliedLoadLabel),
                              validate_positive(Get(form_data, "section_capacity", PyInt(0)),
                                                SectionCapacityLabel)))
      [] calculation_type = "moment_capacity" ->
             MomentForm(
                 FirstRaised2(validate_positive(Get(form_data, "yield_strength", PyInt(0)), YieldStrengthLabel),
                              validate_positive(Get(form_data, "plastic_modulus", PyInt(0)),
                                                PlasticModulusLabel)))
      [] calculation_type = "deflection" ->
             DeflectionForm(
                 FirstRaised3(validate_non_negative(Get(form_data, "actual_deflection", PyInt(0)),
                                                    ActualDeflectionLabel),
                              validate_positive(Get(form_data, "span_length", PyInt(0)), SpanLengthLabel),
                              validate_positive(Get(form_data, "deflection_limit", PyInt(300)),
                                                DeflectionLimitLabel)))
      [] calculation_type = "shear_capacity" ->
             ShearForm(
                 FirstRaised2(validate_positive(Get(form_data, "yield_strength", PyInt(0)), YieldStrengthLabel),
                              validate_positive(Get(form_data, "shear_area", PyInt(0)), ShearAreaLabel)))
      [] calculation_type = "material_properties" ->
             MaterialForm(validate_steel_grade(Get(form_data, "steel_grade", PyStr(<<>>))))
      [] OTHER ->
             Raise("ValidationError", <<"Unknown", "calculation", "type:", calculation_type>>)

(***************************************************************************)
(* main.py, the two endpoints.  A response is its status and its JSON      *)
(* body; with it the model keeps what the handler did on the way: the      *)
(* functions it called (ran) and the exception it caught (caught).         *)
(***************************************************************************)
NoException == [kind |-> "none", message |-> <<>>]

Response(status, body, ran, caught) ==
    [kind |-> "response", status |-> status, body |-> body, ran |-> ran, caught |-> caught]

\* calculate lines 103-113, complete_analysis lines 142-152: the except clauses
ErrorResponse(e, prefix, ran) ==
    IF e.kind = "ValidationError"
    THEN Response(400, [success |-> FALSE, error |-> e.message], ran, e)
    ELSE Response(500, [success |-> FALSE, error |-> <<prefix, "error:">> \o e.message], ran, e)

\* the calculator of each calculation type
CalculatorOf ==
    [factored_load |-> "calculate_factored_load",
     safety_factor |-> "check_safety_factor",
     utilization |-> "calculate_section_utilization",
     moment_capacity |-> "calculate_moment_capacity",
     deflection |-> "check_deflection_serviceability",
     shear_capacity |-> "calculate_shear_capacity",
     material_properties |-> "get_material_properties"]

\* Dispatch with the shear calculator run for a moment capacity
Dispatch_ShearForMoment(calculation_type, v) ==
    CASE calculation_type = "factored_load" ->
             calculate_factored_load(v.dead_load, v.live_load, v.wind_load, v.earthquake_load,
                                     v.combination_type)
      [] calculation_type = "safety_factor" ->
             check_safety_factor(v.applied_stress, v.allowable_stress, v.min_safety_factor)
      [] calculation_type = "utilization" ->
             calculate_section_utilization(v.applied_load, v.section_capacity)
      [] calculation_type = "moment_capacity" ->
             calculate_shear_capacity(v.yield_strength, v.plastic_modulus)
      [] calculation_type = "deflection" ->
             check_deflection_serviceability(v.actual_deflection, v.span_length,
                                             v.deflection_limit)
      [] calculation_type = "shear_capacity" ->
             calculate_shear_capacity(v.yield_strength, v.shear_area)
      [] calculation_type = "material_properties" -> get_material_properties(v.steel_grade)

\* calculate lines 45-90, on the validated data
\* (the else of lines 91-95 is not reached: validate_form_data has raised
\* for a calculation type that is none of these)
Dispatch(calculation_type, v) ==
    CASE calculation_type = "factored_load" ->
             calculate_factored_load(v.dead_load, v.live_load, v.wind_load, v.earthquake_load,
                                     v.combination_type)
      [] calculation_type = "safety_factor" ->
             check_safety_factor(v.applied_stress, v.allowable_stress, v.min_safety_factor)
      [] calculation_type = "utilization" ->
             calculate_section_utilization(v.applied_load, v.section_capacity)
      [] calculation_type = "moment_capacity" ->
             calculate_moment_capacity(v.yield_strength, v.plastic_modulus)
      [] calculation_type = "deflection" ->
             check_deflection_serviceability(v.actual_deflection, v.span_length,
                                             v.deflection_limit)
      [] calculation_type = "shear_capacity" ->
             calculate_shear_capacity(v.yield_strength, v.shear_area)
      [] calculation_type = "material_properties" -> get_material_properties(v.steel_grade)

\* calculate lines 97-101, or an except clause
CalculateResult(result, calculation_type) ==
    IF Raised(result)
    THEN ErrorResponse(result, "Calculation", {"validate_form_data", CalculatorOf[calculation_type]})
    ELSE Response(200,
                  [success |-> TRUE, calculation_type |-> calculation_type, result |-> result.value],
                  {"validate_form_data", CalculatorOf[calculation_type]}, NoException)

CalculateValidated(validated, calculation_type) ==
    IF Raised(validated) THEN ErrorResponse(validated, "Calculation", {"validate_form_data"})
    ELSE CalculateResult(Dispatch(calculation_type, validated.value), calculation_type)

\* POST /calculate
calculate(form, calculation_type) ==
    IF calculation_type = ""
    THEN Response(400,
                  [success |-> FALSE, error |-> <<"Please", "select", "a", "calculation", "type">>],
                  {}, NoException)
    ELSE CalculateValidated(validate_form_data(form, calculation_type), calculation_type)

\* float(x) of complete_analysis lines 125-129: ValueError on a string that
\* is no numeral
FloatOf(value) ==
    IF AsNumber(value).ok THEN Return(AsNumber(value).x)
    ELSE Raise("ValueError",
               <<"could", "not", "convert", "string", "to", "float:", ToString(value.s)>>)

FirstRaised5(a, b, c, d, e) ==
    IF Raised(a) THEN a
    ELSE IF Raised(b) THEN b
    ELSE IF Raised(c) THEN c
    ELSE IF Raised(d) THEN d
    ELSE IF Raised(e) THEN e
    ELSE Return(PyTuple(<<a.value, b.value, c.value, d.value, e.value>>))

\* complete_analysis lines 137-140, or an except clause
AnalysisResult(result) ==
    IF Raised(result) THEN ErrorResponse(result, "Analysis", {"perform_complete_analysis"})
    ELSE Response(200, [success |-> TRUE, result |-> result.value],
                  {"perform_complete_analysis"}, NoException)

\* complete_analysis lines 130-135, on the converted values
AnalysisConverted(v, combination_type) ==
    IF Raised(v) THEN ErrorResponse(v, "Analysis", {})
    ELSE AnalysisResult(perform_complete_analysis(
             PyFloat(v.value.items[1]), PyFloat(v.value.items[2]), PyFloat(v.value.items[3]),
             PyFloat(v.value.items[4]), PyFloat(v.value.items[5]), combination_type))

\* POST /complete-analysis
complete_analysis(form) ==
    AnalysisConverted(FirstRaised5(FloatOf(Get(form, "dead_load", PyInt(0))),
                                   FloatOf(Get(form, "live_load", PyInt(0))),
                                   FloatOf(Get(form, "applied_stress", PyInt(0))),
                                   FloatOf(Get(form, "allowable_stress", PyInt(0))),
                                   FloatOf(Get(form, "section_capacity", PyInt(0)))),
                      Get(form, "combination_type", PyStr(Normal)))

(***************************************************************************)
(* Inputs.                                                                 *)
(***************************************************************************)
Alphabet == Digits \cup {".", "-", " ", "a", "n", "i", "f"}

RECURSIVE StringsOfLen(_)
StringsOfLen(n) ==
    IF n = 0 THEN {<<>>}
    ELSE {Append(cs, c) : cs \in StringsOfLen(n - 1), c \in Alphabet}

Strings == UNION {StringsOfLen(n) : n \in 0..MaxStrLen}

Ints == {PyInt(i) : i \in (-MaxInt)..MaxInt}

\* floats: halves and thousandths of small integers, and the IEEE specials
Floats ==
    {PyFloat(Fin(i, d)) : i \in (-MaxInt)..MaxInt, d \in {2, 1000}}
        \cup {PyFloat(PosInf), PyFloat(NegInf), PyFloat(NaN)}

\* what a numeric validator is handed
Values == Ints \cup Floats \cup {PyStr(cs) : cs \in Strings} \cup {PyNone}

\* what a calculator is handed for a numeric parameter: small numbers of either
\* sign, zero, a half, numeric strings, and values that are not finite numbers
Numbers == {PyInt(i) : i \in (-1)..MaxInt} \cup {PyFloat(Fin(1, 2))}
NumericStrings == {PyStr(<<"1">>), PyStr(<<"0">>)}
NotFinite == {PyFloat(NaN), PyFloat(PosInf), PyStr(<<"a">>), PyNone}
Inputs == Numbers \cup NumericStrings \cup NotFinite

\* a load may also be a fraction of a hundredth, which rounding to two places loses
LoadInputs == Inputs \cup {PyFloat(Fin(3, 1000))}

\* the loads the selected formula may not use
SideLoads == {PyInt(-1), PyInt(0), PyInt(1), PyStr(<<"a">>)}

\* values on and next to the thresholds 0.7, 0.8, 1.0 and 1.1 of the status bands
Probes ==
    {PyFloat(Fin(7, 10)), PyFloat(Fin(701, 1000)), PyFloat(Fin(8, 10)), PyFloat(Fin(801, 1000)),
     PyFloat(Fin(11, 10)), PyFloat(Fin(1101, 1000))}

\* the stresses, the load and the capacity of the worked examples
StressExamples == {PyInt(100), PyInt(150), PyInt(200)}
LoadExample == PyInt(75)

\* a yield strength and a plastic modulus whose moment has digits in both units
YieldExample == PyInt(250)
ModulusExample == PyInt(5000)
CapacityExample == PyInt(100)

\* values a rounding to three or four places moves onto 1.0 or 0.7, and one
\* whose margin a rounding to two places moves onto zero
NearThresholds ==
    {PyFloat(Fin(9996, 10000)), PyFloat(Fin(99996, 100000)), PyFloat(Fin(100004, 100000)),
     PyFloat(Fin(70004, 100000))}

CombinationInputs ==
    {PyStr(Normal), PyStr(Wind), PyStr(Seismic),
     PyStr(<<" ", "W", "i", "n", "d", " ">>), PyStr(<<"b", "o", "g", "u", "s">>), PyNone}

GradeInputs ==
    {PyStr(g) : g \in DOMAIN STEEL_GRADES_0}
        \cup {PyStr(<<" ", "e", "2", "5", "0", " ">>), PyStr(<<"F", "e", "4", "1", "0">>),
              PyStr(<<"E", "9", "9", "9">>), PyStr(<<>>), PyNone, PyInt(250)}

\* a name in every mix of upper and lower case
CaseVariants(name) ==
    {[i \in 1..Len(name) |-> IF up[i] THEN UpperChar(name[i]) ELSE LowerChar(name[i])] :
         up \in [1..Len(name) -> BOOLEAN]}

\* a name with up to MaxPad blanks before and after it
Padded(name) ==
    {[i \in 1..(l + Len(name) + r) |->
          IF i > l /\ i <= l + Len(name) THEN name[i - l] ELSE " "] :
         l \in 0..MaxPad, r \in 0..MaxPad}

\* what validate_combination_type is handed: the names in any case and
\* padding, strings that are no name, and values that are no string
CombinationValues ==
    {PyStr(cs) : cs \in UNION {Padded(w) : w \in UNION {CaseVariants(c) : c \in DOMAIN LOAD_COMBINATIONS_0}}}
        \cup CombinationInputs
        \cup {PyStr(<<>>), PyStr(<<" ">>), PyStr(<<"w", "i", " ", "n", "d">>),
              PyStr(<<"w", "i", "n", "d", "y">>), PyInt(1), PyFloat(Fin(1, 2))}

\* what get_material_properties is handed: the grades in any case and
\* padding, strings that are no grade, and values that are no string
GradeValues ==
    {PyStr(cs) : cs \in UNION {Padded(w) : w \in UNION {CaseVariants(g) : g \in DOMAIN STEEL_GRADES_0}}}
        \cup GradeInputs
        \cup {PyStr(<<"F", "e", " ", "4", "1", "0">>), PyStr(<<"E", "2", "5">>), PyFloat(Fin(1, 2))}

\* what validate_deflection_category is handed
CategoryValues ==
    {PyStr(c) : c \in DOMAIN DEFLECTION_LIMITS_0}
        \cup {PyStr(cs) : cs \in Padded(<<"N", "o", "r", "m", "a", "l">>)}
        \cup {PyStr(<<"b", "o", "g", "u", "s">>), PyStr(<<>>), PyNone, PyInt(300)}

\* what a caller does to a dict it was handed: it overwrites a field
Overwritten(properties) == [properties EXCEPT !.yield_strength = Zero]

\* or it adds one
Annotated(properties) ==
    [yield_strength |-> properties.yield_strength,
     ultimate_strength |-> properties.ultimate_strength,
     elongation |-> properties.elongation,
     description |-> properties.description,
     grade |-> properties.grade,
     elastic_modulus |-> properties.elastic_modulus,
     checked |-> TRUE]

\* the inputs of the composite analysis
AnalysisLoads == {PyInt(-1), PyInt(0), PyInt(1), PyFloat(Fin(3, 1000)), PyStr(<<"a">>)}
AnalysisStresses == {PyInt(0), PyInt(1), PyInt(MaxInt), PyStr(<<"a">>)}
AnalysisCapacities == {PyInt(0), PyInt(1), PyInt(MaxInt), PyFloat(Fin(3, 1000))}
AnalysisCombinations ==
    {PyStr(Normal), PyStr(Wind), PyStr(Seismic), PyStr(<<"b", "o", "g", "u", "s">>)}

TestLabel == <<"Test", "Value">>

\* what a form field may hold: numerals in and out of range, a word, nan
FormValues ==
    {PyStr(<<"1">>), PyStr(<<"0">>), PyStr(<<"-", "1">>), PyStr(<<".", "5">>),
     PyStr(<<"1", ".", "5">>), PyStr(<<"a">>), PyStr(<<"n", "a", "n">>)}

\* the fewer values of the forms of many fields
FewFormValues == {PyStr(<<"1">>), PyStr(<<"-", "1">>), PyStr(<<"a">>)}

FormCombinations == {PyStr(Wind), PyStr(<<"W", "i", "n", "d", " ">>), PyStr(<<"b", "o", "g", "u", "s">>)}

FormGrades == {PyStr(E250), PyStr(<<"e", "2", "5", "0">>), PyStr(<<"E", "2", "5">>)}

\* the forms that hold some of the fields, each with one of the values
FormsOver(fields, values) == UNION {[present -> values] : present \in SUBSET fields}

\* the calculation types of validate_form_data
Kinds == DOMAIN CalculatorOf

\* what the calculation_type field may hold: a type, nothing, another word
Selectors == Kinds \cup {"", "bogus"}

\* the forms sent with a calculation type
Forms(calculation_type) ==
    CASE calculation_type = "factored_load" ->
             {loads @@ combo :
                 loads \in FormsOver({"dead_load", "live_load", "wind_load", "earthquake_load"},
                                     FewFormValues),
                 combo \in FormsOver({"combination_type"}, FormCombinations)}
      [] calculation_type = "safety_factor" ->
             FormsOver({"applied_stress", "allowable_stress", "min_safety_factor"}, FormValues)
      [] calculation_type = "moment_capacity" ->
             FormsOver({"yield_strength", "plastic_modulus"}, FormValues)
      [] calculation_type = "deflection" ->
             FormsOver({"actual_deflection", "span_length", "deflection_limit"}, FormValues)
      [] calculation_type = "shear_capacity" ->
             FormsOver({"yield_strength", "shear_area"}, FormValues)
      [] calculation_type = "material_properties" -> FormsOver({"steel_grade"}, FormGrades)
      [] OTHER -> FormsOver({"applied_load", "section_capacity"}, FormValues)

\* the forms sent to /complete-analysis
AnalysisForms ==
    {numbers @@ combo :
        numbers \in FormsOver({"dead_load", "live_load", "applied_stress", "allowable_stress",
                               "section_capacity"}, FewFormValues),
        combo \in FormsOver({"combination_type"}, FormCombinations)}

(***************************************************************************)
(* The caller.                                                             *)
(***************************************************************************)
Init ==
    /\ pc = "idle"
    /\ op = "none"
    /\ args = [none |-> TRUE]
    /\ outcome = [kind |-> "none"]
    /\ STEEL_GRADES = STEEL_GRADES_0
    /\ LOAD_COMBINATIONS = LOAD_COMBINATIONS_0
    /\ DEFLECTION_LIMITS = DEFLECTION_LIMITS_0
    /\ held = <<>>
    /\ earlier = [op |-> "none"]

\* a call of a function that assigns to no object but its own locals
Call(name, arguments, result) ==
    /\ pc' = "returned"
    /\ op' = name
    /\ args' = arguments
    /\ outcome' = result
    /\ held' = <<>>
    /\ UNCHANGED <<tables, earlier>>

ValidateNumeric ==
    /\ pc = "idle"
    /\ \E value \in Values, allow_zero \in BOOLEAN, allow_negative \in BOOLEAN :
        Call("validate_numeric",
             [value |-> value, allow_zero |-> allow_zero, allow_negative |-> allow_negative],
             validate_numeric(value, TestLabel, allow_zero, allow_negative))

ValidatePositive ==
    /\ pc = "idle"
    /\ \E value \in Values :
        Call("validate_positive", [value |-> value], validate_positive(value, TestLabel))

ValidateNonNegative ==
    /\ pc = "idle"
    /\ \E value \in Values :
        Call("validate_non_negative", [value |-> value], validate_non_negative(value, TestLabel))

ValidateLoadInputs ==
    /\ pc = "idle"
    /\ \E dl \in LoadInputs, ll \in LoadInputs, wl \in SideLoads, eq \in SideLoads :
        Call("validate_load_inputs",
             [dead_load |-> dl, live_load |-> ll, wind_load |-> wl, earthquake_load |-> eq],
             validate_load_inputs(dl, ll, wl, eq))

ValidateSafetyFactorInputs ==
    /\ pc = "idle"
    /\ \E applied \in Inputs, allowable \in Inputs, min_sf \in Inputs :
        Call("validate_safety_factor_inputs",
             [applied_stress |-> applied, allowable_stress |-> allowable,
              min_safety_factor |-> min_sf],
             validate_safety_factor_inputs(applied, allowable, min_sf))

ValidateDeflectionInputs ==
    /\ pc = "idle"
    /\ \E deflection \in Inputs, span \in Inputs, ratio \in Inputs :
        Call("validate_deflection_inputs",
             [actual_deflection |-> deflection, span_length |-> span, limit_ratio |-> ratio],
             validate_deflection_inputs(deflection, span, ratio))

ValidateDeflectionCategory ==
    /\ pc = "idle"
    /\ \E category \in CategoryValues :
        Call("validate_deflection_category", [category |-> category],
             validate_deflection_category(category))

ValidateCombinationType ==
    /\ pc = "idle"
    /\ \E combo \in CombinationValues :
        Call("validate_combination_type", [combination_type |-> combo],
             validate_combination_type(combo))

CalculateFactoredLoad ==
    /\ pc = "idle"
    /\ \E dl \in LoadInputs, ll \in LoadInputs, wl \in SideLoads, eq \in SideLoads, combo \in CombinationInputs :
        Call("calculate_factored_load",
             [dead_load |-> dl, live_load |-> ll, wind_load |-> wl, earthquake_load |-> eq,
              combination_type |-> combo],
             calculate_factored_load(dl, ll, wl, eq, combo))

CheckSafetyFactor ==
    /\ pc = "idle"
    /\ \E applied \in Inputs \cup StressExamples,
          allowable \in Inputs \cup Probes \cup StressExamples \cup NearThresholds,
          min_sf \in Inputs \cup {DefaultMinSafetyFactor} :
        Call("check_safety_factor",
             [applied_stress |-> applied, allowable_stress |-> allowable,
              min_safety_factor |-> min_sf],
             check_safety_factor(applied, allowable, min_sf))

CalculateSectionUtilization ==
    /\ pc = "idle"
    /\ \E load \in LoadInputs \cup Probes \cup NearThresholds \cup {LoadExample},
          capacity \in Inputs \cup {CapacityExample} :
        Call("calculate_section_utilization",
             [applied_load |-> load, section_capacity |-> capacity],
             calculate_section_utilization(load, capacity))

CalculateMomentCapacity ==
    /\ pc = "idle"
    /\ \E fy \in Inputs \cup {YieldExample}, zpz \in Inputs \cup {ModulusExample} :
        Call("calculate_moment_capacity", [yield_strength |-> fy, plastic_modulus |-> zpz],
             calculate_moment_capacity(fy, zpz))

CheckDeflectionServiceability ==
    /\ pc = "idle"
    /\ \E deflection \in Inputs \cup Probes, span \in Inputs, ratio \in Inputs :
        Call("check_deflection_serviceability",
             [actual_deflection |-> deflection, span_length |-> span,
              deflection_limit_ratio |-> ratio],
             check_deflection_serviceability(deflection, span, ratio))

CalculateShearCapacity ==
    /\ pc = "idle"
    /\ \E fy \in Inputs, av \in Inputs :
        Call("calculate_shear_capacity", [yield_strength |-> fy, shear_area |-> av],
             calculate_shear_capacity(fy, av))

GetMaterialProperties ==
    /\ pc = "idle"
    /\ \E grade \in GradeValues :
        /\ pc' = "returned"
        /\ op' = "get_material_properties"
        /\ args' = [steel_grade |-> grade]
        /\ outcome' = get_material_properties(grade)
        /\ held' = MaterialObject(validate_steel_grade(grade))
        /\ STEEL_GRADES' = GradesAfter(validate_steel_grade(grade),
                                       MaterialObject(validate_steel_grade(grade)))
        /\ UNCHANGED <<LOAD_COMBINATIONS, DEFLECTION_LIMITS, earlier>>

\* the caller changes the dict that get_material_properties handed it; the
\* change is one to the table's entry if the dict is that entry
ModifyResult ==
    /\ pc = "returned"
    /\ op = "get_material_properties"
    /\ outcome.kind = "return"
    /\ \E changed \in {Overwritten(outcome.value), Annotated(outcome.value)} :
        /\ outcome' = Return(changed)
        /\ STEEL_GRADES' = IF held = <<>> THEN STEEL_GRADES
                           ELSE [STEEL_GRADES EXCEPT ![held] = changed]
    /\ pc' = "modified"
    /\ earlier' = IF earlier.op = "none" THEN earlier ELSE [earlier EXCEPT !.modified = TRUE]
    /\ UNCHANGED <<op, args, held, LOAD_COMBINATIONS, DEFLECTION_LIMITS>>

PerformCompleteAnalysis ==
    /\ pc = "idle"
    /\ \E dl \in AnalysisLoads, ll \in AnalysisLoads, applied \in AnalysisStresses,
       allowable \in AnalysisStresses, capacity \in AnalysisCapacities,
       combo \in AnalysisCombinations :
        Call("perform_complete_analysis",
             [dead_load |-> dl, live_load |-> ll, applied_stress |-> applied,
              allowable_stress |-> allowable, section_capacity |-> capacity,
              combination_type |-> combo],
             perform_complete_analysis(dl, ll, applied, allowable, capacity, combo))

\* validators.validate_form_data, called on its own
ValidateFormData ==
    /\ pc = "idle"
    /\ \E calculation_type \in Selectors :
        \E form_data \in Forms(calculation_type) :
            Call("validate_form_data",
                 [form_data |-> form_data, calculation_type |-> calculation_type],
                 validate_form_data(form_data, calculation_type))

\* the steel grade a request makes get_material_properties look up
RequestedGrade(form, calculation_type) ==
    IF calculation_type = "material_properties"
    THEN validate_steel_grade(Get(form, "steel_grade", PyStr(<<>>)))
    ELSE Raise("ValidationError", <<>>)

\* POST /calculate: request.form.get('calculation_type', '') is "" when the
\* field is missing
PostCalculate ==
    /\ pc = "idle"
    /\ \E calculation_type \in Selectors :
        \E form \in Forms(calculation_type) :
            /\ pc' = "returned"
            /\ op' = "POST /calculate"
            /\ args' = [calculation_type |-> calculation_type, form |-> form]
            /\ outcome' = calculate(form, calculation_type)
            /\ held' = <<>>
            /\ STEEL_GRADES' = GradesAfter(RequestedGrade(form, calculation_type),
                                           MaterialObject(RequestedGrade(form, calculation_type)))
            /\ UNCHANGED <<LOAD_COMBINATIONS, DEFLECTION_LIMITS, earlier>>

\* POST /complete-analysis
PostCompleteAnalysis ==
    /\ pc = "idle"
    /\ \E form \in AnalysisForms :
        Call("POST /complete-analysis", [form |-> form], complete_analysis(form))

\* the caller has read the outcome
Resume ==
    /\ pc \in {"returned", "modified"}
    /\ pc' = "idle"
    /\ op' = "none"
    /\ args' = [none |-> TRUE]
    /\ outcome' = [kind |-> "none"]
    /\ held' = <<>>
    /\ UNCHANGED <<tables, earlier>>

Next ==
    \/ ValidateNumeric
    \/ ValidatePositive
    \/ ValidateNonNegative
    \/ ValidateLoadInputs
    \/ ValidateSafetyFactorInputs
    \/ ValidateDeflectionInputs
    \/ ValidateCombinationType
    \/ ValidateDeflectionCategory
    \/ CalculateFactoredLoad
    \/ CheckSafetyFactor
    \/ CalculateSectionUtilization
    \/ CalculateMomentCapacity
    \/ CheckDeflectionServiceability
    \/ CalculateShearCapacity
    \/ GetMaterialProperties
    \/ ModifyResult
    \/ PerformCompleteAnalysis
    \/ ValidateFormData
    \/ PostCalculate
    \/ PostCompleteAnalysis
    \/ Resume

Spec == Init /\ [][Next]_vars

(***************************************************************************)
(* The caller that comes back to a call it made before.  It draws its     *)
(* calls from a few of each function, one that returns and one that       *)
(* raises, remembers one call with its outcome, and goes on calling.      *)
(***************************************************************************)
\* the function of the name, applied to the arguments
Apply(name, a) ==
    CASE name = "validate_numeric" ->
             validate_numeric(a.value, TestLabel, a.allow_zero, a.allow_negative)
      [] name = "validate_positive" -> validate_positive(a.value, TestLabel)
      [] name = "validate_non_negative" -> validate_non_negative(a.value, TestLabel)
      [] name = "validate_load_inputs" ->
             validate_load_inputs(a.dead_load, a.live_load, a.wind_load, a.earthquake_load)
      [] name = "validate_combination_type" -> validate_combination_type(a.combination_type)
      [] name = "validate_deflection_category" -> validate_deflection_category(a.category)
      [] name = "validate_safety_factor_inputs" ->
             validate_safety_factor_inputs(a.applied_stress, a.allowable_stress,
                                           a.min_safety_factor)
      [] name = "validate_deflection_inputs" ->
             validate_deflection_inputs(a.actual_deflection, a.span_length, a.limit_ratio)
      [] name = "calculate_factored_load" ->
             calculate_factored_load(a.dead_load, a.live_load, a.wind_load, a.earthquake_load,
                                     a.combination_type)
      [] name = "check_safety_factor" ->
             check_safety_factor(a.applied_stress, a.allowable_stress, a.min_safety_factor)
      [] name = "calculate_section_utilization" ->
             calculate_section_utilization(a.applied_load, a.section_capacity)
      [] name = "calculate_moment_capacity" ->
             calculate_moment_capacity(a.yield_strength, a.plastic_modulus)
      [] name = "check_deflection_serviceability" ->
             check_deflection_serviceability(a.actual_deflection, a.span_length,
                                             a.deflection_limit_ratio)
      [] name = "calculate_shear_capacity" ->
             calculate_shear_capacity(a.yield_strength, a.shear_area)
      [] name = "get_material_properties" -> get_material_properties(a.steel_grade)
      [] name = "perform_complete_analysis" ->
             perform_complete_analysis(a.dead_load, a.live_load, a.applied_stress,
                                       a.allowable_stress, a.section_capacity,
                                       a.combination_type)

Bogus == PyStr(<<"b", "o", "g", "u", "s">>)

\* the calls it draws from
RepeatCalls ==
    {[op |-> "validate_numeric",
      args |-> [value |-> v, allow_zero |-> FALSE, allow_negative |-> FALSE]] :
         v \in {PyInt(1), PyStr(<<"a">>)}}
    \cup {[op |-> "validate_positive", args |-> [value |-> v]] : v \in {PyInt(1), PyInt(0)}}
    \cup {[op |-> "validate_non_negative", args |-> [value |-> v]] : v \in {PyInt(0), PyInt(-1)}}
    \cup {[op |-> "validate_load_inputs",
           args |-> [dead_load |-> PyInt(1), live_load |-> v, wind_load |-> PyInt(0),
                     earthquake_load |-> PyInt(0)]] : v \in {PyInt(1), PyInt(-1)}}
    \cup {[op |-> "validate_combination_type", args |-> [combination_type |-> v]] :
              v \in {PyStr(Wind), Bogus}}
    \cup {[op |-> "validate_deflection_category", args |-> [category |-> v]] :
              v \in {PyStr(Normal), Bogus}}
    \cup {[op |-> f,
           args |-> [applied_stress |-> v, allowable_stress |-> PyInt(1),
                     min_safety_factor |-> PyInt(1)]] :
              f \in {"validate_safety_factor_inputs", "check_safety_factor"},
              v \in {PyInt(1), PyInt(0)}}
    \cup {[op |-> "validate_deflection_inputs",
           args |-> [actual_deflection |-> PyInt(1), span_length |-> PyInt(1),
                     limit_ratio |-> v]] : v \in {PyInt(1), PyInt(0)}}
    \cup {[op |-> "check_deflection_serviceability",
           args |-> [actual_deflection |-> PyInt(1), span_length |-> PyInt(1),
                     deflection_limit_ratio |-> v]] : v \in {PyInt(1), PyFloat(Fin(1, 2))}}
    \cup {[op |-> "calculate_factored_load",
           args |-> [dead_load |-> PyInt(1), live_load |-> PyInt(1), wind_load |-> PyInt(1),
                     earthquake_load |-> PyInt(0), combination_type |-> v]] :
              v \in {PyStr(Wind), Bogus}}
    \cup {[op |-> "calculate_section_utilization",
           args |-> [applied_load |-> PyInt(1), section_capacity |-> v]] :
              v \in {PyInt(1), PyInt(0)}}
    \cup {[op |-> "calculate_moment_capacity",
           args |-> [yield_strength |-> v, plastic_modulus |-> PyInt(1)]] :
              v \in {PyInt(1), PyInt(0)}}
    \cup {[op |-> "calculate_shear_capacity",
           args |-> [yield_strength |-> PyInt(1), shear_area |-> v]] :
              v \in {PyInt(1), PyStr(<<"a">>)}}
    \cup {[op |-> "get_material_properties", args |-> [steel_grade |-> v]] :
              v \in {PyStr(E250), PyStr(<<"F", "e", "4", "1", "0">>), PyStr(<<"E", "9", "9", "9">>)}}
    \cup {[op |-> "perform_complete_analysis",
           args |-> [dead_load |-> PyInt(1), live_load |-> PyInt(1), applied_stress |-> PyInt(1),
                     allowable_stress |-> PyInt(1), section_capacity |-> PyInt(1),
                     combination_type |-> v]] : v \in {PyStr(Normal), Bogus}}

\* the grade a call validates, a ValidationError for a call that has none
GradeOf(call) ==
    IF call.op = "get_material_properties" THEN validate_steel_grade(call.args.steel_grade)
    ELSE Raise("ValidationError", <<>>)

Invoke ==
    /\ pc = "idle"
    /\ \E call \in RepeatCalls :
        /\ pc' = "returned"
        /\ op' = call.op
        /\ args' = call.args
        /\ outcome' = Apply(call.op, call.args)
        /\ held' = MaterialObject(GradeOf(call))
        /\ STEEL_GRADES' = GradesAfter(GradeOf(call), MaterialObject(GradeOf(call)))
    /\ UNCHANGED <<LOAD_COMBINATIONS, DEFLECTION_LIMITS, earlier>>

\* the caller notes the call it has just made, and its outcome
Remember ==
    /\ pc = "returned"
    /\ earlier.op = "none"
    /\ earlier' = [op |-> op, args |-> args, outcome |-> outcome, modified |-> FALSE]
    /\ UNCHANGED <<pc, op, args, outcome, tables, held>>

NextRepeat ==
    \/ Invoke
    \/ Remember
    \/ ModifyResult
    \/ Resume

SpecRepeat == Init /\ [][NextRepeat]_vars

(***************************************************************************)
(* What the properties are stated in.                                      *)
(***************************************************************************)
Calculators ==
    {"calculate_factored_load", "check_safety_factor", "calculate_section_utilization",
     "calculate_moment_capacity", "check_deflection_serviceability",
     "calculate_shear_capacity", "get_material_properties", "perform_complete_analysis"}

Called(name) == pc = "returned" /\ op = name

\* v is a number or a string that float() converts
IsNumber(v) == AsNumber(v).ok
IsFinite(v) == AsNumber(v).ok /\ IsFin(AsNumber(v).x)
NonNegative(v) == AsNumber(v).ok /\ XLe(Zero, AsNumber(v).x)
Positive(v) == AsNumber(v).ok /\ XLt(Zero, AsNumber(v).x)
ZeroOrNegative(v) == AsNumber(v).ok /\ XLe(AsNumber(v).x, Zero)

\* no argument of the call is an infinity or a NaN
FiniteArgs == \A f \in DOMAIN args : AsNumber(args[f]).ok => IsFin(AsNumber(args[f]).x)

\* C1: every call of a calculator or of the composite analysis on numbers,
\* numeric strings and names ends in a result record or in a ValidationError;
\* no call ends in a division by zero.
C1_ResultOrValidationError ==
    (pc = "returned" /\ op \in Calculators /\ FiniteArgs)
        => outcome.kind \in {"return", "ValidationError"}

\* C2: with combination 'normal' and non-negative loads the factored load is
\* round(1.5*DL + 1.5*LL, 2) in kN, whatever the wind and earthquake loads are.
C2_NormalFactoredLoad ==
    (/\ Called("calculate_factored_load")
     /\ NonNegative(args.dead_load) /\ NonNegative(args.live_load)
     /\ NonNegative(args.wind_load) /\ NonNegative(args.earthquake_load)
     /\ args.combination_type = PyStr(Normal))
        => /\ outcome.kind = "return"
           /\ outcome.value.factored_load =
                  XRound(XAdd(XMul(Fin(3, 2), AsNumber(args.dead_load).x),
                              XMul(Fin(3, 2), AsNumber(args.live_load).x)), 2)
           /\ outcome.value.unit = "kN"
           /\ outcome.value.combination_type = Normal

\* 1.5*1 + 1.5*0.003 = 1.5045 is returned as 1.5, with a wind load present
C2_Witness ==
    /\ Called("calculate_factored_load")
    /\ args = [dead_load |-> PyInt(1), live_load |-> PyFloat(Fin(3, 1000)),
               wind_load |-> PyInt(1), earthquake_load |-> PyInt(1),
               combination_type |-> PyStr(Normal)]
    /\ outcome.kind = "return"
    /\ outcome.value.factored_load = Fin(3, 2)

\* C3: with non-negative loads, 'wind' gives round(1.2*(DL+LL+WL), 2) whatever
\* the earthquake load is and 'seismic' gives round(1.2*(DL+LL+EQ), 2) whatever
\* the wind load is.
C3_WindSeismicFactoredLoad ==
    (/\ Called("calculate_factored_load")
     /\ NonNegative(args.dead_load) /\ NonNegative(args.live_load)
     /\ NonNegative(args.wind_load) /\ NonNegative(args.earthquake_load)
     /\ args.combination_type \in {PyStr(Wind), PyStr(Seismic)})
        => /\ outcome.kind = "return"
           /\ outcome.value.factored_load =
                  XRound(XMul(Fin(6, 5),
                              XAdd(XAdd(AsNumber(args.dead_load).x, AsNumber(args.live_load).x),
                                   IF args.combination_type = PyStr(Wind)
                                   THEN AsNumber(args.wind_load).x
                                   ELSE AsNumber(args.earthquake_load).x)), 2)

\* wind with WL = 1 and EQ = 0: 1.2*(1 + 0.5 + 1) = 3
C3_Witness ==
    /\ Called("calculate_factored_load")
    /\ args = [dead_load |-> PyInt(1), live_load |-> PyFloat(Fin(1, 2)),
               wind_load |-> PyInt(1), earthquake_load |-> PyInt(0),
               combination_type |-> PyStr(Wind)]
    /\ outcome.kind = "return"
    /\ outcome.value.factored_load = Fin(3, 1)

\* C4: with positive stresses and minimum, is_safe holds exactly when
\* allowable/applied >= minimum (equality is safe), and the status is 'SAFE'
\* exactly when is_safe holds and 'UNSAFE' otherwise.
C4_SafeIffQuotientAtLeastMinimum ==
    (/\ Called("check_safety_factor")
     /\ Positive(args.applied_stress) /\ Positive(args.allowable_stress)
     /\ Positive(args.min_safety_factor))
        => /\ outcome.kind = "return"
           /\ outcome.value.is_safe =
                  XLe(AsNumber(args.min_safety_factor).x,
                      XDiv(AsNumber(args.allowable_stress).x, AsNumber(args.applied_stress).x))
           /\ outcome.value.status = (IF outcome.value.is_safe THEN "SAFE" ELSE "UNSAFE")

\* allowable/applied = 2/1 equals the minimum 2
C4_Witness ==
    /\ Called("check_safety_factor")
    /\ args = [applied_stress |-> PyInt(1), allowable_stress |-> PyInt(2),
               min_safety_factor |-> PyInt(2)]
    /\ outcome.kind = "return"
    /\ outcome.value.is_safe
    /\ outcome.value.status = "SAFE"

\* applied/capacity of the call
C5_Ratio == XDiv(AsNumber(args.applied_load).x, AsNumber(args.section_capacity).x)

\* C5: with applied load >= 0 and capacity > 0 the status is one of four, by
\* the ratio applied/capacity: <= 0.7 'UNDER-UTILIZED', (0.7, 1.0] 'ADEQUATE',
\* (1.0, 1.1] 'MARGINALLY OVERSTRESSED', > 1.1 'OVERSTRESSED'.
C5_UtilizationBands ==
    (/\ Called("calculate_section_utilization")
     /\ NonNegative(args.applied_load) /\ Positive(args.section_capacity))
        => /\ outcome.kind = "return"
           /\ outcome.value.status \in
                  {"UNDER-UTILIZED", "ADEQUATE", "MARGINALLY OVERSTRESSED", "OVERSTRESSED"}
           /\ XLe(C5_Ratio, Fin(7, 10)) => outcome.value.status = "UNDER-UTILIZED"
           /\ (XLt(Fin(7, 10), C5_Ratio) /\ XLe(C5_Ratio, Fin(1, 1)))
                  => outcome.value.status = "ADEQUATE"
           /\ (XLt(Fin(1, 1), C5_Ratio) /\ XLe(C5_Ratio, Fin(11, 10)))
                  => outcome.value.status = "MARGINALLY OVERSTRESSED"
           /\ XLt(Fin(11, 10), C5_Ratio) => outcome.value.status = "OVERSTRESSED"

\* the ratio is exactly 1.1
C5_Witness ==
    /\ Called("calculate_section_utilization")
    /\ args = [applied_load |-> PyFloat(Fin(11, 10)), section_capacity |-> PyInt(1)]
    /\ outcome.kind = "return"
    /\ outcome.value.status = "MARGINALLY OVERSTRESSED"

\* span/ratio of the call
C6_Allowable == XDiv(AsNumber(args.span_length).x, AsNumber(args.deflection_limit_ratio).x)

\* actual/allowable of the call
C6_Utilization == XDiv(AsNumber(args.actual_deflection).x, C6_Allowable)

\* C6: with deflection >= 0, span > 0 and a positive limit ratio the call
\* returns is_serviceable == (actual <= span/ratio), and the status is 'WELL
\* WITHIN LIMITS' when serviceable with actual/allowable <= 0.8, 'WITHIN LIMITS'
\* when serviceable with actual/allowable > 0.8, and 'EXCEEDS LIMITS' exactly
\* when not serviceable.
C6_ServiceableIffWithinAllowable ==
    (/\ Called("check_deflection_serviceability")
     /\ FiniteArgs
     /\ NonNegative(args.actual_deflection) /\ Positive(args.span_length)
     /\ Positive(args.deflection_limit_ratio))
        => /\ outcome.kind = "return"
           /\ outcome.value.is_serviceable = XLe(AsNumber(args.actual_deflection).x, C6_Allowable)
           /\ (outcome.value.is_serviceable /\ XLe(C6_Utilization, Fin(8, 10)))
                  => outcome.value.status = "WELL WITHIN LIMITS"
           /\ (outcome.value.is_serviceable /\ XLt(Fin(8, 10), C6_Utilization))
                  => outcome.value.status = "WITHIN LIMITS"
           /\ (outcome.value.status = "EXCEEDS LIMITS") = ~outcome.value.is_serviceable

NumericValidators == {"validate_numeric", "validate_positive", "validate_non_negative"}

\* C7: a numeric validator returns a finite float or raises ValidationError.
C7_FiniteOrValidationError ==
    (pc = "returned" /\ op \in NumericValidators)
        => \/ outcome.kind = "ValidationError"
           \/ outcome.kind = "return" /\ IsFin(outcome.value)

\* C8: on a number or a numeric string v, validate_positive accepts exactly
\* when v > 0 and validate_non_negative exactly when v >= 0; an accepted v is
\* returned as the float equal to it, a rejected one raises ValidationError.
C8_AcceptsExactlyInRange ==
    (pc = "returned" /\ op \in {"validate_positive", "validate_non_negative"}
        /\ IsNumber(args.value))
        => /\ (outcome.kind = "return") =
                  (IF op = "validate_positive" THEN Positive(args.value)
                   ELSE NonNegative(args.value))
           /\ outcome.kind = "return" => XEq(outcome.value, AsNumber(args.value).x)
           /\ outcome.kind # "return" => outcome.kind = "ValidationError"

\* the parameters that must be positive, with the labels their errors carry
PositiveParameters ==
    [check_safety_factor |->
         {<<"applied_stress", AppliedStressLabel>>, <<"allowable_stress", AllowableStressLabel>>,
          <<"min_safety_factor", MinSafetyFactorLabel>>},
     validate_safety_factor_inputs |->
         {<<"applied_stress", AppliedStressLabel>>, <<"allowable_stress", AllowableStressLabel>>,
          <<"min_safety_factor", MinSafetyFactorLabel>>},
     calculate_section_utilization |-> {<<"section_capacity", SectionCapacityLabel>>},
     calculate_moment_capacity |->
         {<<"yield_strength", YieldStrengthLabel>>, <<"plastic_modulus", PlasticModulusLabel>>},
     calculate_shear_capacity |->
         {<<"yield_strength", YieldStrengthLabel>>, <<"shear_area", ShearAreaLabel>>},
     check_deflection_serviceability |->
         {<<"span_length", SpanLengthLabel>>, <<"deflection_limit_ratio", DeflectionLimitLabel>>},
     validate_deflection_inputs |->
         {<<"span_length", SpanLengthLabel>>, <<"limit_ratio", DeflectionLimitLabel>>},
     perform_complete_analysis |->
         {<<"applied_stress", AppliedStressLabel>>, <<"allowable_stress", AllowableStressLabel>>,
          <<"section_capacity", SectionCapacityLabel>>}]

\* every argument of the call but the named one is a valid one
OthersValid(field) ==
    \A f \in DOMAIN args \ {field} :
        IF f = "combination_type" THEN ~Raised(validate_combination_type(args[f]))
        ELSE IsFinite(args[f]) /\ Positive(args[f])

\* C9: a zero or negative value for a parameter that must be positive fails
\* with a ValidationError whose message contains the parameter's label.
C9_ErrorNamesParameter ==
    (pc = "returned" /\ op \in DOMAIN PositiveParameters)
        => \A p \in PositiveParameters[op] :
               (ZeroOrNegative(args[p[1]]) /\ OthersValid(p[1]))
                   => /\ outcome.kind = "ValidationError"
                      /\ Contains(outcome.message, p[2])

\* the load breaks a rule of validate_non_negative
InvalidLoad(v) == ~AsNumber(v).ok \/ XLt(AsNumber(v).x, Zero)

\* the label of the first load of the call that breaks a rule, <<>> if none does
FirstInvalidLoad ==
    IF InvalidLoad(args.dead_load) THEN DeadLoadLabel
    ELSE IF InvalidLoad(args.live_load) THEN LiveLoadLabel
    ELSE IF InvalidLoad(args.wind_load) THEN WindLoadLabel
    ELSE IF InvalidLoad(args.earthquake_load) THEN EarthquakeLoadLabel
    ELSE <<>>

NotNumericReason == <<"must", "be", "a", "numeric", "value,">>
NegativeReason == <<"cannot", "be", "negative,">>
ZeroReason == <<"cannot", "be", "zero">>

\* the one rule of validate_numeric the call breaks first, <<>> if none
FirstBrokenRule ==
    IF ~AsNumber(args.value).ok THEN NotNumericReason
    ELSE IF ~args.allow_negative /\ XLt(AsNumber(args.value).x, Zero) THEN NegativeReason
    ELSE IF ~args.allow_zero /\ XEq(AsNumber(args.value).x, Zero) THEN ZeroReason
    ELSE <<>>

LoadLabels == {DeadLoadLabel, LiveLoadLabel, WindLoadLabel, EarthquakeLoadLabel}

\* the error is about the combination type and about no load
CombinationError ==
    /\ outcome.kind = "ValidationError"
    /\ \/ Contains(outcome.message, <<"Invalid", "combination", "type:">>)
       \/ Contains(outcome.message, <<"Combination", "type", "must", "be", "a", "string,">>)
    /\ \A label \in LoadLabels : ~Contains(outcome.message, label)

\* C10: validation reports the first broken rule only: in validate_numeric
\* not-numeric before negative before zero; among the loads Dead, Live, Wind,
\* Earthquake; and in calculate_factored_load every load before the
\* combination type.
C10_FirstViolationReported ==
    /\ Called("validate_numeric") =>
           IF FirstBrokenRule = <<>> THEN outcome.kind = "return"
           ELSE /\ outcome.kind = "ValidationError"
                /\ \A reason \in {NotNumericReason, NegativeReason, ZeroReason} :
                       Contains(outcome.message, reason) = (reason = FirstBrokenRule)
    /\ (pc = "returned" /\ op \in {"validate_load_inputs", "calculate_factored_load"}) =>
           IF FirstInvalidLoad # <<>>
           THEN /\ outcome.kind = "ValidationError"
                /\ \A label \in LoadLabels :
                       Contains(outcome.message, label) = (label = FirstInvalidLoad)
           ELSE IF op = "validate_load_inputs" THEN outcome.kind = "return"
           ELSE IF Raised(validate_combination_type(args.combination_type))
           THEN CombinationError
           ELSE outcome.kind = "return"

\* a negative live load, a wind load that is no number and an unknown
\* combination type: the error is about the live load
C10_Witness ==
    /\ Called("calculate_factored_load")
    /\ args = [dead_load |-> PyInt(1), live_load |-> PyInt(-1),
               wind_load |-> PyStr(<<"a">>), earthquake_load |-> PyInt(0),
               combination_type |-> PyStr(<<"b", "o", "g", "u", "s">>)]
    /\ outcome.kind = "ValidationError"
    /\ Contains(outcome.message, LiveLoadLabel)
    /\ ~Contains(outcome.message, WindLoadLabel)

\* cs is name in some mix of cases, with blanks before and after it
IsVariantOf(cs, name) ==
    \E l \in 0..Len(cs) :
        /\ l + Len(name) <= Len(cs)
        /\ \A i \in 1..Len(cs) :
               IF i > l /\ i <= l + Len(name)
               THEN LowerChar(cs[i]) = LowerChar(name[i - l])
               ELSE cs[i] = " "

\* the combination name the string is a variant of, <<>> if of none
CombinationNamed(cs) ==
    IF \E c \in {Normal, Wind, Seismic} : IsVariantOf(cs, c)
    THEN CHOOSE c \in {Normal, Wind, Seismic} : IsVariantOf(cs, c)
    ELSE <<>>

\* C11: validate_combination_type returns the lower-case name for a string
\* that is 'normal', 'wind' or 'seismic' up to case and surrounding blanks,
\* raises ValidationError for every other string and every non-string, and
\* returns its own output unchanged.
C11_CombinationNormalized ==
    Called("validate_combination_type")
        => IF args.combination_type.t = "str" /\ CombinationNamed(args.combination_type.s) # <<>>
           THEN /\ outcome = Return(PyStr(CombinationNamed(args.combination_type.s)))
                /\ validate_combination_type(outcome.value) = outcome
           ELSE outcome.kind = "ValidationError"

\* ' WInD ' comes back as 'wind'
C11_Witness ==
    /\ Called("validate_combination_type")
    /\ args.combination_type = PyStr(<<" ", "W", "I", "n", "D", " ">>)
    /\ outcome = Return(PyStr(Wind))

\* the grade key the string is a variant of, <<>> if of none
GradeNamed(cs) ==
    IF \E g \in DOMAIN STEEL_GRADES : IsVariantOf(cs, g)
    THEN CHOOSE g \in DOMAIN STEEL_GRADES : IsVariantOf(cs, g)
    ELSE <<>>

\* C12: get_material_properties on a grade key in any letter case, with
\* blanks before or after it, returns the record it returns for the key
\* itself; every other string and every non-string raises ValidationError.
C12_GradeLookupInsensitive ==
    Called("get_material_properties")
        => IF args.steel_grade.t = "str" /\ GradeNamed(args.steel_grade.s) # <<>>
           THEN /\ outcome.kind = "return"
                /\ outcome = get_material_properties(PyStr(GradeNamed(args.steel_grade.s)))
           ELSE outcome.kind = "ValidationError"

\* ' fe490 ' is looked up as FE490
C12_Witness ==
    /\ Called("get_material_properties")
    /\ args.steel_grade = PyStr(<<" ", "f", "e", "4", "9", "0", " ">>)
    /\ outcome.kind = "return"
    /\ outcome.value.grade = FE490

\* C13: for a valid grade the record carries the table's yield strength,
\* ultimate strength and elongation of the grade, the upper-case grade name and
\* elastic_modulus 200000; 'Fe410' gives 250 and 410, 'E250' gives 250, 410, 23.
C13_MaterialFromTable ==
    (/\ Called("get_material_properties")
     /\ args.steel_grade.t = "str" /\ GradeNamed(args.steel_grade.s) # <<>>)
        => /\ outcome.kind = "return"
           /\ outcome.value.yield_strength =
                  STEEL_GRADES[GradeNamed(args.steel_grade.s)].yield_strength
           /\ outcome.value.ultimate_strength =
                  STEEL_GRADES[GradeNamed(args.steel_grade.s)].ultimate_strength
           /\ outcome.value.elongation = STEEL_GRADES[GradeNamed(args.steel_grade.s)].elongation
           /\ outcome.value.grade = GradeNamed(args.steel_grade.s)
           /\ outcome.value.elastic_modulus = Fin(200000, 1)
           /\ GradeNamed(args.steel_grade.s) = FE410
                  => outcome.value.yield_strength = Fin(250, 1) /\ outcome.value.ultimate_strength = Fin(410, 1)
           /\ GradeNamed(args.steel_grade.s) = E250
                  => /\ outcome.value.yield_strength = Fin(250, 1)
                     /\ outcome.value.ultimate_strength = Fin(410, 1)
                     /\ outcome.value.elongation = Fin(23, 1)

\* 'Fe410' gives yield strength 250 and ultimate strength 410
C13_Witness ==
    /\ Called("get_material_properties")
    /\ args.steel_grade = PyStr(<<"F", "e", "4", "1", "0">>)
    /\ outcome.kind = "return"
    /\ outcome.value.yield_strength = Fin(250, 1)
    /\ outcome.value.ultimate_strength = Fin(410, 1)
    /\ outcome.value.elastic_modulus = Fin(200000, 1)

\* C14: on valid inputs the composite analysis returns the three
\* sub-analyses, each equal to what the standalone operation returns on the
\* same inputs, is_acceptable as the conjunction of is_safe and is_adequate,
\* and overall_status 'ACCEPTABLE' exactly when is_acceptable holds, 'REVIEW
\* REQUIRED' otherwise.
C14_CompositeOfStandalone ==
    (/\ Called("perform_complete_analysis")
     /\ NonNegative(args.dead_load) /\ NonNegative(args.live_load)
     /\ Positive(args.applied_stress) /\ Positive(args.allowable_stress)
     /\ Positive(args.section_capacity)
     /\ ~Raised(validate_combination_type(args.combination_type)))
        => /\ outcome.kind = "return"
           /\ DOMAIN outcome.value =
                  {"factored_load_analysis", "safety_factor_analysis", "utilization_analysis",
                   "overall_status", "is_acceptable"}
           /\ Return(outcome.value.factored_load_analysis) =
                  calculate_factored_load(args.dead_load, args.live_load, PyFloat(Zero),
                                          PyFloat(Zero), args.combination_type)
           /\ Return(outcome.value.safety_factor_analysis) =
                  check_safety_factor(args.applied_stress, args.allowable_stress,
                                      PyFloat(Fin(1, 1)))
           /\ Return(outcome.value.utilization_analysis) =
                  calculate_section_utilization(
                      PyFloat(outcome.value.factored_load_analysis.factored_load),
                      args.section_capacity)
           /\ outcome.value.is_acceptable =
                  (outcome.value.safety_factor_analysis.is_safe
                       /\ outcome.value.utilization_analysis.is_adequate)
           /\ outcome.value.overall_status =
                  (IF outcome.value.is_acceptable THEN "ACCEPTABLE" ELSE "REVIEW REQUIRED")

\* safe (1/1 >= 1.0) but not adequate (3/1 > 1.0): review required
C14_Witness ==
    /\ Called("perform_complete_analysis")
    /\ args = [dead_load |-> PyInt(1), live_load |-> PyInt(1), applied_stress |-> PyInt(1),
               allowable_stress |-> PyInt(1), section_capacity |-> PyInt(1),
               combination_type |-> PyStr(Normal)]
    /\ outcome.kind = "return"
    /\ outcome.value.safety_factor_analysis.is_safe
    /\ ~outcome.value.utilization_analysis.is_adequate
    /\ outcome.value.overall_status = "REVIEW REQUIRED"

\* the number has no more than two decimal places
TwoPlaces(v) == XRound(v, 2) = v

\* the calculators that report numbers they computed
Computing ==
    {"calculate_factored_load", "check_safety_factor", "calculate_section_utilization",
     "calculate_moment_capacity", "check_deflection_serviceability", "calculate_shear_capacity"}

\* C15: every computed number of a result is rounded to 2 places if it is a
\* magnitude (load, capacity, percentage, margin, allowable deflection) and to
\* 4 places if it is a ratio (utilization ratio, deflection utilization,
\* safety factor).
C15_FixedPrecision ==
    (pc = "returned" /\ op \in Computing /\ outcome.kind = "return" /\ FiniteArgs)
        => CASE op = "calculate_factored_load" ->
                    /\ TwoPlaces(outcome.value.factored_load)
                    /\ \A f \in DOMAIN outcome.value.components \ {"factor_applied"} :
                           TwoPlaces(outcome.value.components[f])
             [] op = "check_safety_factor" ->
                    /\ outcome.value.safety_factor =
                           XRound(XDiv(AsNumber(args.allowable_stress).x,
                                       AsNumber(args.applied_stress).x), 4)
                    /\ TwoPlaces(outcome.value.margin)
             [] op = "calculate_section_utilization" ->
                    /\ outcome.value.utilization_ratio =
                           XRound(XDiv(AsNumber(args.applied_load).x,
                                       AsNumber(args.section_capacity).x), 4)
                    /\ TwoPlaces(outcome.value.utilization_percent)
                    /\ TwoPlaces(outcome.value.reserve_capacity)
             [] op = "calculate_moment_capacity" ->
                    /\ TwoPlaces(outcome.value.moment_capacity_nmm)
                    /\ TwoPlaces(outcome.value.moment_capacity_knm)
             [] op = "check_deflection_serviceability" ->
                    /\ TwoPlaces(outcome.value.allowable_deflection)
                    /\ XRound(outcome.value.utilization, 4) = outcome.value.utilization
                    /\ TwoPlaces(outcome.value.utilization_percent)
             [] op = "calculate_shear_capacity" ->
                    /\ TwoPlaces(outcome.value.shear_capacity_n)
                    /\ TwoPlaces(outcome.value.shear_capacity_kn)

\* C17: the tables STEEL_GRADES, LOAD_COMBINATIONS and DEFLECTION_LIMITS
\* keep their initial entries through every call, and through every change a
\* caller makes to a record that get_material_properties returned.
C17_TablesNeverMutated ==
    /\ STEEL_GRADES = STEEL_GRADES_0
    /\ LOAD_COMBINATIONS = LOAD_COMBINATIONS_0
    /\ DEFLECTION_LIMITS = DEFLECTION_LIMITS_0

\* the caller has overwritten the yield strength of the record it got for
\* E250, and the table still has 250
C17_Witness ==
    /\ pc = "modified"
    /\ op = "get_material_properties"
    /\ args.steel_grade = PyStr(E250)
    /\ outcome.value.yield_strength = Zero
    /\ STEEL_GRADES[E250].yield_strength = Fin(250, 1)

\* C16: a call has the outcome that the same call had earlier, whatever was
\* called in between and whatever the caller did to the records it was handed;
\* in particular when it is made twice in a row.
C16_SameCallSameOutcome ==
    (pc = "returned" /\ earlier.op = op /\ earlier.args = args) => outcome = earlier.outcome

\* E250 is looked up again after the caller has changed a record it was
\* handed, and the record is the one of the first lookup
C16_Witness ==
    /\ Called("get_material_properties")
    /\ earlier.op = op /\ earlier.args = args /\ earlier.modified
    /\ args.steel_grade = PyStr(E250)
    /\ outcome = earlier.outcome
    /\ outcome.kind = "return"

(***************************************************************************)
(* The endpoints.                                                          *)
(***************************************************************************)
Endpoints == {"POST /calculate", "POST /complete-analysis"}

NonNegativeFields ==
    {"dead_load", "live_load", "wind_load", "earthquake_load", "applied_load", "actual_deflection"}

PositiveFields ==
    {"applied_stress", "allowable_stress", "min_safety_factor", "section_capacity",
     "yield_strength", "plastic_modulus", "span_length", "deflection_limit", "shear_area"}

\* the value sent in a field is an invalid input: not a number, negative
\* where that is disallowed, zero where that is disallowed, or outside the
\* enumerated set
InvalidField(name, v) ==
    CASE name \in NonNegativeFields -> ~IsNumber(v) \/ (ZeroOrNegative(v) /\ ~NonNegative(v))
      [] name \in PositiveFields -> ~IsNumber(v) \/ ZeroOrNegative(v)
      [] name = "combination_type" -> CombinationNamed(v.s) = <<>>
      [] name = "steel_grade" -> GradeNamed(v.s) = <<>>
      [] OTHER -> FALSE

\* a request has been answered whose form holds an invalid input
InvalidInputSent ==
    /\ pc = "returned"
    /\ op \in Endpoints
    /\ \E name \in DOMAIN args.form : InvalidField(name, args.form[name])

\* C18: at both endpoints a request whose form holds an invalid input (a
\* field that is not a number, a negative value where that is disallowed, a
\* zero where that is disallowed, a value outside an enumerated set) is
\* answered with status 400 and a failure body, never with status 500.
C18_InvalidInputIs400 ==
    InvalidInputSent => (outcome.status = 400 /\ ~outcome.body.success)

\* a request has failed with an exception that is no ValidationError
OtherFailure ==
    /\ pc = "returned"
    /\ op \in Endpoints
    /\ outcome.caught.kind \notin {"none", "ValidationError"}

\* C19: a request that fails with a failure other than a ValidationError is
\* answered with status 500, and the error text of the answer does not
\* contain the text of the exception.
C19_GenericErrorText ==
    OtherFailure =>
        (outcome.status = 500 /\ ~Contains(outcome.body.error, outcome.caught.message))

\* the arguments the calculator of a calculation type gets from a form: the
\* fields sent, the defaults for the others
FormArguments(calculation_type, form) ==
    CASE calculation_type = "factored_load" ->
             [dead_load |-> Get(form, "dead_load", PyInt(0)),
              live_load |-> Get(form, "live_load", PyInt(0)),
              wind_load |-> Get(form, "wind_load", PyInt(0)),
              earthquake_load |-> Get(form, "earthquake_load", PyInt(0)),
              combination_type |-> Get(form, "combination_type", PyStr(Normal))]
      [] calculation_type = "safety_factor" ->
             [applied_stress |-> Get(form, "applied_stress", PyInt(0)),
              allowable_stress |-> Get(form, "allowable_stress", PyInt(0)),
              min_safety_factor |-> Get(form, "min_safety_factor", PyFloat(Fin(1, 1)))]
      [] calculation_type = "utilization" ->
             [applied_load |-> Get(form, "applied_load", PyInt(0)),
              section_capacity |-> Get(form, "section_capacity", PyInt(0))]
      [] calculation_type = "moment_capacity" ->
             [yield_strength |-> Get(form, "yield_strength", PyInt(0)),
              plastic_modulus |-> Get(form, "plastic_modulus", PyInt(0))]
      [] calculation_type = "deflection" ->
             [actual_deflection |-> Get(form, "actual_deflection", PyInt(0)),
              span_length |-> Get(form, "span_length", PyInt(0)),
              deflection_limit_ratio |-> Get(form, "deflection_limit", PyInt(300))]
      [] calculation_type = "shear_capacity" ->
             [yield_strength |-> Get(form, "yield_strength", PyInt(0)),
              shear_area |-> Get(form, "shear_area", PyInt(0))]
      [] calculation_type = "material_properties" ->
             [steel_grade |-> Get(form, "steel_grade", PyStr(<<>>))]

\* C20: validate_form_data given a calculation type that is none of the
\* seven raises a ValidationError whose message contains "Unknown
\* calculation type", whatever the form; /calculate then answers 400 with no
\* calculator called; /calculate with an empty or missing calculation type
\* answers 400 before it validates anything; and an answer of success gives
\* back the calculation type with the result of the calculator of that type.
C20_SelectorDecides ==
    /\ (Called("validate_form_data") /\ args.calculation_type \notin Kinds) =>
           /\ outcome.kind = "ValidationError"
           /\ Contains(outcome.message, <<"Unknown", "calculation", "type:">>)
    /\ (Called("POST /calculate") /\ args.calculation_type \notin Kinds \cup {""}) =>
           /\ outcome.status = 400
           /\ ~outcome.body.success
           /\ Contains(outcome.body.error, <<"Unknown", "calculation", "type:">>)
           /\ outcome.ran \cap Calculators = {}
    /\ (Called("POST /calculate") /\ args.calculation_type = "") =>
           /\ outcome.status = 400
           /\ ~outcome.body.success
           /\ outcome.ran = {}
    /\ (Called("POST /calculate") /\ outcome.body.success) =>
           /\ outcome.status = 200
           /\ args.calculation_type \in Kinds
           /\ outcome.body.calculation_type = args.calculation_type
           /\ outcome.ran \cap Calculators = {CalculatorOf[args.calculation_type]}
           /\ Return(outcome.body.result) =
                  Apply(CalculatorOf[args.calculation_type],
                        FormArguments(args.calculation_type, args.form))

\* /calculate has turned down a calculation type it does not know, sent with
\* a form whose fields would pass as a utilization request
C20_Witness ==
    /\ Called("POST /calculate")
    /\ args.calculation_type = "bogus"
    /\ DOMAIN args.form = {"applied_load", "section_capacity"}
    /\ ~Raised(validate_form_data(args.form, "utilization"))
    /\ outcome.status = 400
    /\ outcome.ran = {"validate_form_data"}

(***************************************************************************)
(* The deflection limit ratio.                                             *)
(***************************************************************************)
\* C21: the limit ratio that validate_deflection_inputs returns is an integer
\* of at least 1, and a result of check_deflection_serviceability shows an
\* integer of at least 1 in its 'L/<ratio>' label, the one the span was
\* divided by for the allowable deflection.
C21_RatioIsPositiveInteger ==
    /\ (Called("validate_deflection_inputs") /\ outcome.kind = "return") =>
           /\ outcome.value.items[3].t = "int"
           /\ outcome.value.items[3].v >= 1
    /\ (Called("check_deflection_serviceability") /\ outcome.kind = "return") =>
           /\ outcome.value.limit_ratio[2] >= 1
           /\ outcome.value.allowable_deflection =
                  XRound(XDiv(outcome.value.span_length,
                              Fin(outcome.value.limit_ratio[2], 1)), 2)

(***************************************************************************)
(* The safety margin.                                                      *)
(***************************************************************************)
\* allowable/applied of the call, unrounded
C22_Quotient == XDiv(AsNumber(args.allowable_stress).x, AsNumber(args.applied_stress).x)

\* C22: with positive stresses and minimum, the margin of check_safety_factor
\* is round(((SF - min)/min)*100, 2) with SF the unrounded allowable/applied;
\* applied 200, allowable 150, minimum 1.0 give safety factor 0.75, 'UNSAFE'
\* and margin -25.0, and applied 100, allowable 150 give margin 50.0.
C22_MarginOfUnroundedQuotient ==
    (/\ Called("check_safety_factor")
     /\ Positive(args.applied_stress) /\ Positive(args.allowable_stress)
     /\ Positive(args.min_safety_factor))
        => /\ outcome.kind = "return"
           /\ outcome.value.margin =
                  XRound(XMul(XDiv(XSub(C22_Quotient, AsNumber(args.min_safety_factor).x),
                                   AsNumber(args.min_safety_factor).x),
                              Fin(100, 1)), 2)
           /\ args = [applied_stress |-> PyInt(200), allowable_stress |-> PyInt(150),
                      min_safety_factor |-> PyFloat(Fin(1, 1))]
                  => /\ outcome.value.safety_factor = Fin(3, 4)
                     /\ outcome.value.status = "UNSAFE"
                     /\ outcome.value.margin = Fin(-25, 1)
           /\ args = [applied_stress |-> PyInt(100), allowable_stress |-> PyInt(150),
                      min_safety_factor |-> PyFloat(Fin(1, 1))]
                  => outcome.value.margin = Fin(50, 1)

\* applied 200, allowable 150, minimum 1.0: the margin is negative
C22_Witness ==
    /\ Called("check_safety_factor")
    /\ args = [applied_stress |-> PyInt(200), allowable_stress |-> PyInt(150),
               min_safety_factor |-> PyFloat(Fin(1, 1))]
    /\ outcome.kind = "return"
    /\ outcome.value.margin = Fin(-25, 1)

(***************************************************************************)
(* The reserve capacity.                                                   *)
(***************************************************************************)
\* (1 - applied/capacity) * 100 of the call
C23_Reserve == XMul(XSub(Fin(1, 1), C5_Ratio), Fin(100, 1))

\* C23: with applied load >= 0 and capacity > 0, calculate_section_utilization
\* reports is_adequate == (ratio <= 1.0), utilization_percent ==
\* round(ratio*100, 2) and reserve_capacity == round(max(0, (1 - ratio)*100), 2)
\* for ratio = applied/capacity; the reserve is never negative, is 0 when the
\* ratio exceeds 1, and is 25.0 for applied 75 and capacity 100; an applied
\* load of zero gives ratio 0 and is_adequate true.
C23_ReserveNeverNegative ==
    (/\ Called("calculate_section_utilization")
     /\ NonNegative(args.applied_load) /\ Positive(args.section_capacity))
        => /\ outcome.kind = "return"
           /\ outcome.value.is_adequate = XLe(C5_Ratio, Fin(1, 1))
           /\ outcome.value.utilization_percent = XRound(XMul(C5_Ratio, Fin(100, 1)), 2)
           /\ outcome.value.reserve_capacity =
                  XRound(IF XLt(Zero, C23_Reserve) THEN C23_Reserve ELSE Zero, 2)
           /\ ~XLt(outcome.value.reserve_capacity, Zero)
           /\ XLt(Fin(1, 1), C5_Ratio) => outcome.value.reserve_capacity = Zero
           /\ args = [applied_load |-> LoadExample, section_capacity |-> CapacityExample]
                  => /\ outcome.value.utilization_ratio = Fin(3, 4)
                     /\ outcome.value.reserve_capacity = Fin(25, 1)
           /\ XEq(AsNumber(args.applied_load).x, Zero)
                  => /\ outcome.value.utilization_ratio = Zero
                     /\ outcome.value.is_adequate

\* a section loaded to twice its capacity has a reserve of zero
C23_Witness ==
    /\ Called("calculate_section_utilization")
    /\ args = [applied_load |-> PyInt(2), section_capacity |-> PyInt(1)]
    /\ outcome.kind = "return"
    /\ ~outcome.value.is_adequate
    /\ outcome.value.reserve_capacity = Zero

(***************************************************************************)
(* The moment capacity.                                                    *)
(***************************************************************************)
\* Fy*Zpz/1.10 of the call
C24_Moment ==
    XDiv(XMul(AsNumber(args.yield_strength).x, AsNumber(args.plastic_modulus).x), Fin(11, 10))

\* C24: with Fy > 0 and Zpz > 0, calculate_moment_capacity reports
\* moment_capacity_nmm == round(Fy*Zpz/1.10, 2), moment_capacity_knm ==
\* round(Fy*Zpz/1.10/1e6, 2) and gamma_m0 == 1.10; the kN-m value of Fy 250
\* and Zpz 500000 is 113.64 (its N-mm value, 113636363.64, has more digits
\* than the model's integers, so this one is taken from the kN-m line alone).
C24_MomentInBothUnits ==
    /\ (/\ Called("calculate_moment_capacity")
        /\ Positive(args.yield_strength) /\ Positive(args.plastic_modulus))
           => /\ outcome.kind = "return"
              /\ outcome.value.moment_capacity_nmm = XRound(C24_Moment, 2)
              /\ outcome.value.moment_capacity_knm =
                     XRound(XDiv(C24_Moment, Fin(1000000, 1)), 2)
              /\ outcome.value.gamma_m0 = Fin(11, 10)
    /\ MomentKnm(XDiv(XMul(Fin(250, 1), Fin(500000, 1)), GAMMA_M0)) = Fin(11364, 100)

\* Fy 250 and Zpz 5000: 1136363.64 N-mm, 1.14 kN-m
C24_Witness ==
    /\ Called("calculate_moment_capacity")
    /\ args = [yield_strength |-> YieldExample, plastic_modulus |-> ModulusExample]
    /\ outcome.kind = "return"
    /\ outcome.value.moment_capacity_nmm = Fin(113636364, 100)
    /\ outcome.value.moment_capacity_knm = Fin(114, 100)

(***************************************************************************)
(* Validation before computation.                                          *)
(***************************************************************************)
\* the argument of a calculator breaks the rule of its parameter: it is no
\* number, negative for a load or a deflection, zero or negative for the
\* other quantities, or no name of the table for a combination or a grade
InvalidArgument(name, v) ==
    CASE name \in NonNegativeFields -> ~IsNumber(v) \/ (ZeroOrNegative(v) /\ ~NonNegative(v))
      [] name \in PositiveFields \cup {"deflection_limit_ratio"} ->
             ~IsNumber(v) \/ ZeroOrNegative(v)
      [] name = "combination_type" -> v.t # "str" \/ CombinationNamed(v.s) = <<>>
      [] name = "steel_grade" -> v.t # "str" \/ GradeNamed(v.s) = <<>>
      [] OTHER -> FALSE

\* C25: a calculator handed an argument that breaks the rule of its
\* parameter, used by the selected formula or not, raises ValidationError and
\* returns no result: so does calculate_factored_load with 'normal' and a
\* negative or non-numeric wind or earthquake load; and when the safety check
\* of perform_complete_analysis fails after the factored load was computed,
\* the call raises and carries no record.
C25_NoResultFromInvalidInput ==
    /\ (/\ pc = "returned"
        /\ op \in Calculators
        /\ \E name \in DOMAIN args : InvalidArgument(name, args[name]))
           => /\ outcome.kind = "ValidationError"
              /\ "value" \notin DOMAIN outcome
    /\ (/\ Called("calculate_factored_load")
        /\ args.combination_type = PyStr(Normal)
        /\ \/ InvalidArgument("wind_load", args.wind_load)
           \/ InvalidArgument("earthquake_load", args.earthquake_load))
           => outcome.kind = "ValidationError"
    /\ (/\ Called("perform_complete_analysis")
        /\ ~Raised(calculate_factored_load(args.dead_load, args.live_load, DefaultLoad,
                                           DefaultLoad, args.combination_type))
        /\ \/ Raised(check_safety_factor(args.applied_stress, args.allowable_stress,
                                         DefaultMinSafetyFactor))
           \/ InvalidArgument("section_capacity", args.section_capacity))
           => /\ outcome.kind = "ValidationError"
              /\ "value" \notin DOMAIN outcome

\* 'normal' with valid dead and live loads and a negative wind load
C25_Witness ==
    /\ Called("calculate_factored_load")
    /\ args = [dead_load |-> PyInt(1), live_load |-> PyInt(1), wind_load |-> PyInt(-1),
               earthquake_load |-> PyInt(0), combination_type |-> PyStr(Normal)]
    /\ outcome.kind = "ValidationError"

(***************************************************************************)
(* The demand of the composite analysis.                                   *)
(***************************************************************************)
\* C26: in a record of perform_complete_analysis the applied load of the
\* utilization analysis is the reported factored load; for 'wind' and
\* 'seismic' that load is round(1.2*(DL + LL), 2), no wind or earthquake load
\* being passed, and the safety analysis has minimum_required 1.0.
C26_DemandIsReportedLoad ==
    (Called("perform_complete_analysis") /\ outcome.kind = "return")
        => /\ outcome.value.utilization_analysis.applied_load =
                  outcome.value.factored_load_analysis.factored_load
           /\ outcome.value.factored_load_analysis.combination_type \in {Wind, Seismic}
                  => outcome.value.factored_load_analysis.factored_load =
                         XRound(XMul(Fin(6, 5), XAdd(AsNumber(args.dead_load).x,
                                                     AsNumber(args.live_load).x)), 2)
           /\ outcome.value.safety_factor_analysis.minimum_required = Fin(1, 1)

\* 'seismic' with DL 1 and LL 0.003: 1.2036 is reported as 1.2, and 1.2 is
\* the load checked against the capacity
C26_Witness ==
    /\ Called("perform_complete_analysis")
    /\ args.dead_load = PyInt(1)
    /\ args.live_load = PyFloat(Fin(3, 1000))
    /\ args.combination_type = PyStr(Seismic)
    /\ outcome.kind = "return"
    /\ outcome.value.factored_load_analysis.factored_load = Fin(6, 5)
    /\ outcome.value.utilization_analysis.applied_load = Fin(6, 5)

(***************************************************************************)
(* Form validation and the calculators' validation.                        *)
(***************************************************************************)
\* /calculate has answered a request whose form validate_form_data accepts
FormAccepted ==
    /\ Called("POST /calculate")
    /\ args.calculation_type \in Kinds
    /\ ~Raised(validate_form_data(args.form, args.calculation_type))

\* the result comes of the validated values v: it is the record of the
\* formula on them, or names them as the values it was computed from; the
\* deflection limit ratio is left to LimitUsed
ComputedFrom(calculation_type, v, result) ==
    CASE calculation_type = "factored_load" ->
             Return(result) =
                 FactoredLoadRecord(v.dead_load.x, v.live_load.x, v.wind_load.x,
                                    v.earthquake_load.x, v.combination_type.s)
      [] calculation_type = "safety_factor" ->
             /\ result.applied_stress = v.applied_stress.x
             /\ result.allowable_stress = v.allowable_stress.x
             /\ result.minimum_required = v.min_safety_factor.x
      [] calculation_type = "utilization" ->
             /\ result.applied_load = v.applied_load.x
             /\ result.section_capacity = v.section_capacity.x
      [] calculation_type = "moment_capacity" ->
             /\ result.yield_strength = v.yield_strength.x
             /\ result.plastic_modulus = v.plastic_modulus.x
      [] calculation_type = "deflection" ->
             /\ result.actual_deflection = v.actual_deflection.x
             /\ result.span_length = v.span_length.x
      [] calculation_type = "shear_capacity" ->
             /\ result.yield_strength = v.yield_strength.x
             /\ result.shear_area = v.shear_area.x
      [] calculation_type = "material_properties" -> result.grade = v.steel_grade.s

\* the limit ratio a deflection result was computed with
LimitUsed(result) == Fin(result.limit_ratio[2], 1)

\* C27 as stated: for a form that validate_form_data accepts, the calculator
\* that /calculate calls raises no ValidationError, and the values it
\* computes from are the validated values, the deflection limit ratio among
\* them.
C27_CalculatorUsesValidatedValues ==
    FormAccepted =>
        /\ outcome.caught.kind # "ValidationError"
        /\ outcome.body.success =>
               /\ ComputedFrom(args.calculation_type,
                               validate_form_data(args.form, args.calculation_type).value,
                               outcome.body.result)
               /\ args.calculation_type = "deflection" =>
                      LimitUsed(outcome.body.result) =
                          validate_form_data(args.form, "deflection").value.deflection_limit.x

\* the integer part of a positive number
IntegerPart(x) == Fin(x.n \div x.d, 1)

\* C27, amended: for a form that validate_form_data accepts, the calculator
\* that /calculate calls raises no ValidationError, and the values it
\* computes from are the validated values, except that of the validated
\* deflection limit ratio it uses the integer part.
C27_CalculatorUsesValidatedValuesButIntegerRatio ==
    FormAccepted =>
        /\ outcome.caught.kind # "ValidationError"
        /\ outcome.body.success =>
               /\ ComputedFrom(args.calculation_type,
                               validate_form_data(args.form, args.calculation_type).value,
                               outcome.body.result)
               /\ args.calculation_type = "deflection" =>
                      LimitUsed(outcome.body.result) =
                          IntegerPart(validate_form_data(args.form, "deflection")
                                          .value.deflection_limit.x)

\* a deflection limit of '1.5' is validated as 1.5 and the result is one for L/1
C27_Witness ==
    /\ FormAccepted
    /\ args.calculation_type = "deflection"
    /\ validate_form_data(args.form, "deflection").value.deflection_limit.x = Fin(3, 2)
    /\ outcome.body.success
    /\ outcome.body.result.limit_ratio[2] = 1

(***************************************************************************)
(* The reported numbers and the reported flags.                            *)
(***************************************************************************)
\* C28: in a result of calculate_section_utilization for a finite applied
\* load >= 0 and a finite capacity > 0, a reported utilization_ratio of 1.0 or less goes with
\* is_adequate true and a status of 'UNDER-UTILIZED' or 'ADEQUATE', and a
\* reported ratio of 0.7 or less with the status 'UNDER-UTILIZED'.
C28_RatioStatusAgree ==
    (/\ Called("calculate_section_utilization")
     /\ NonNegative(args.applied_load) /\ Positive(args.section_capacity)
     /\ FiniteArgs
     /\ outcome.kind = "return")
        => /\ XLe(outcome.value.utilization_ratio, Fin(1, 1))
                  => /\ outcome.value.is_adequate
                     /\ outcome.value.status \in {"UNDER-UTILIZED", "ADEQUATE"}
           /\ XLe(outcome.value.utilization_ratio, Fin(7, 10))
                  => outcome.value.status = "UNDER-UTILIZED"

\* C29: in a result of check_safety_factor for finite positive stresses and
\* minimum,
\* 'UNSAFE' goes with a reported margin below zero and a reported
\* safety_factor below minimum_required, and 'SAFE' with a reported margin of
\* zero or more and a reported safety_factor of minimum_required or more.
C29_MarginStatusAgree ==
    (/\ Called("check_safety_factor")
     /\ Positive(args.applied_stress) /\ Positive(args.allowable_stress)
     /\ Positive(args.min_safety_factor)
     /\ FiniteArgs
     /\ outcome.kind = "return")
        => /\ outcome.value.status = "UNSAFE"
                  => /\ XLt(outcome.value.margin, Zero)
                     /\ XLt(outcome.value.safety_factor, outcome.value.minimum_required)
           /\ outcome.value.status = "SAFE"
                  => /\ XLe(Zero, outcome.value.margin)
                     /\ XLe(outcome.value.minimum_required, outcome.value.safety_factor)

\* C30: in a result of calculate_factored_load for non-negative loads, with
\* 'normal' the components are round(1.5*DL, 2) and round(1.5*LL, 2) and add
\* up to the factored load, and with 'wind' and 'seismic' the combined load
\* times the factor applied, rounded to 2 places, is the factored load.
C30_BreakdownAddsUp ==
    (/\ Called("calculate_factored_load")
     /\ NonNegative(args.dead_load) /\ NonNegative(args.live_load)
     /\ NonNegative(args.wind_load) /\ NonNegative(args.earthquake_load)
     /\ outcome.kind = "return")
        => /\ outcome.value.combination_type = Normal
                  => /\ outcome.value.components.factored_dead_load =
                            XRound(XMul(Fin(3, 2), AsNumber(args.dead_load).x), 2)
                     /\ outcome.value.components.factored_live_load =
                            XRound(XMul(Fin(3, 2), AsNumber(args.live_load).x), 2)
                     /\ XAdd(outcome.value.components.factored_dead_load,
                             outcome.value.components.factored_live_load) =
                            outcome.value.factored_load
           /\ outcome.value.combination_type \in {Wind, Seismic}
                  => XRound(XMul(outcome.value.components.combined_load,
                                 outcome.value.components.factor_applied), 2) =
                         outcome.value.factored_load

====
